---- MODULE Spec2Model ----
(***************************************************************************)
(* A model of the contest engine of AGameOfLLMs: the Bank (ledger), the    *)
(* Constitution (ruleset store) and the ContestEngine round orchestration  *)
(* of src/backend/models.py and src/backend/contest_engine.py.             *)
(***************************************************************************)
EXTENDS Integers, Sequences, FiniteSets, TLC

(***************************************************************************)
(* Bounds of the model.                                                    *)
(***************************************************************************)
\* Longest transaction history the direct Bank calls of SpecBank build.
MaxHistory == 3
\* Longest version history the Constitution.update calls of SpecConstitution build.
MaxVersions == 3
\* Most register_developer calls.
MaxRegistrations == 2
\* Most timestamps taken: contest starts plus rounds begun.
MaxClock == 4
\* Longest transaction history the engine builds: no round begins that could exceed it.
MaxLedger == 6
\* Most accepted submit_solution calls.
MaxSubmitCalls == 1

(***************************************************************************)
(* Input sets.                                                             *)
(***************************************************************************)
\* Actor names handed to the Bank's write methods.
Actors == {"Alice", "Bob"}
\* Amounts and deltas handed to deposit / withdraw / transfer / adjust_balance.
Amounts == {-2, 0, 1, 3}
\* The role name Constitution.update compares its caller against.
DesignatedRole == "PrincipleEvaluator"
\* Callers of Constitution.update: the designated role and two others.
Authors == {"PrincipleEvaluator", "principleevaluator", "Alice"}
\* The text constitution.yaml holds when the Constitution is constructed.
OriginText == "origin"
\* Texts handed to Constitution.update.
Texts == {"origin", "rules A", "rules B"}

VARIABLES
    bank,              \* Bank: [balances, transaction_history]
    constitution,      \* Constitution: [text, history]
    result,            \* how the last top-level call ended: its name, arguments and status
    problems,          \* ContestEngine.problems: sequence of [id, released_at]
    state,             \* ContestState: [current_problem_index, is_active, start_time, participants]
    developers,        \* ContestEngine.developers: the dict's keys in insertion order
    submissions,       \* ContestEngine.submissions: set of [problem_id, name] keys
    feedback,          \* the feedback records handed to Developer.update, in order
    phi4_available,    \* Phi4ModelManager.is_available(), fixed once the model was initialised
    clock,             \* datetime.now(): the number of timestamps taken so far
    events,            \* ContestEngine.event_callbacks, as the number of callbacks
                       \* added, and the events emitted to them, in order
    pc,                \* position of the running engine call ("idle": none is running)
    driver,            \* "full" while run_full_contest is on the stack, else "none"
    cursor,            \* index of the running loop of the round
    current_problem,   \* run_contest_round's local: the 1-based position of its problem
                       \* in problems, 0 when no round is running
    all_submissions,   \* run_contest_round's local list
    execution_results, \* evaluate_submissions_simple's local dict, in insertion order
    results,           \* evaluation_record["results"], in insertion order
    sandbox,           \* CodeSandbox: one instance and its running execute_code
    probe,             \* the argument and the value of a text function under study
    other,             \* a second caller of run_contest_round on the same engine: its
                       \* position and its locals
    mark               \* history variable: the lengths of the transaction history and of
                       \* the feedback log when the latest round began, and what the
                       \* running round's ruleset check caught

bankVars == <<bank>>
storeVars == <<constitution>>
engineVars == <<problems, state, developers, submissions, feedback, phi4_available, clock,
               events>>
frameVars == <<pc, driver, cursor, current_problem, all_submissions, execution_results,
              results, mark, current_problem>>
toolVars == <<sandbox, probe>>
vars == <<bank, constitution, result, problems, state, developers, submissions, feedback,
          phi4_available, clock, events, pc, driver, cursor, current_problem,
          all_submissions, execution_results, results, mark, sandbox, probe, other>>

(***************************************************************************)
(* Bank (src/backend/models.py).  _balances is a Python dict: a sequence   *)
(* of (actor, balance) entries in insertion order, one per key.            *)
(***************************************************************************)
EmptyBank == [balances |-> <<>>, transaction_history |-> <<>>]

\* dict lookup: the index of actor's entry in balances, 0 when absent
KeyIndex(balances, actor) ==
    IF \E i \in 1..Len(balances) : balances[i].actor = actor
    THEN CHOOSE i \in 1..Len(balances) : balances[i].actor = actor
    ELSE 0

\* Bank.get_balance: self._balances.get(actor, 0)
get_balance(b, actor) ==
    LET i == KeyIndex(b.balances, actor)
    IN  IF i = 0 THEN 0 ELSE b.balances[i].balance

\* self._balances[actor] = new_balance: overwrite in place, or append a new key
DictSet(balances, actor, new_balance) ==
    LET i == KeyIndex(balances, actor)
    IN  IF i = 0
        THEN Append(balances, [actor |-> actor, balance |-> new_balance])
        ELSE [balances EXCEPT ![i].balance = new_balance]

\* A mutant of update_balance: the balance is overwritten with delta.
update_balance_overwrite(b, actor, delta, reason) ==
    [balances |-> DictSet(b.balances, actor, delta),
     transaction_history |-> Append(b.transaction_history,
        [actor |-> actor, delta |-> delta, old_balance |-> get_balance(b, actor),
         new_balance |-> delta, reason |-> reason])]

\* Bank._update_balance
update_balance(b, actor, delta, reason) ==
    LET old_balance == get_balance(b, actor)
        new_balance == old_balance + delta
    IN  [balances |-> DictSet(b.balances, actor, new_balance),
         transaction_history |-> Append(b.transaction_history,
            [actor |-> actor, delta |-> delta, old_balance |-> old_balance,
             new_balance |-> new_balance, reason |-> reason])]

\* Bank.adjust_balance
adjust_balance(b, actor, delta, reason) == update_balance(b, actor, delta, reason)

\* A Python slice seq[start:] : a negative start counts from the end, and a start
\* before the first element is the first element.
SliceFrom(seq, start) ==
    LET from == IF start < 0
                THEN (IF Len(seq) + start < 0 THEN 0 ELSE Len(seq) + start)
                ELSE start
    IN  SubSeq(seq, from + 1, Len(seq))

\* Bank.get_history: actor is <<>> for None and <<name>> for a name
get_history(b, actor, limit) ==
    LET history == IF actor # <<>>
                   THEN SelectSeq(b.transaction_history, LAMBDA t : t.actor = actor[1])
                   ELSE b.transaction_history
    IN  IF Len(history) > limit THEN SliceFrom(history, -limit) ELSE history

\* A mutant of InsertDescending: e goes before the entries of its own balance.
InsertDescending_before_equal(sorted, e) ==
    LET before == Cardinality({k \in 1..Len(sorted) : sorted[k].balance > e.balance})
    IN  SubSeq(sorted, 1, before) \o <<e>> \o SubSeq(sorted, before + 1, Len(sorted))

\* list.insert keeping a descending order stable: e goes after every entry whose
\* balance is at least its own
InsertDescending(sorted, e) ==
    LET before == Cardinality({k \in 1..Len(sorted) : sorted[k].balance >= e.balance})
    IN  SubSeq(sorted, 1, before) \o <<e>> \o SubSeq(sorted, before + 1, Len(sorted))

\* sorted(self._balances.items(), key=lambda x: x[1], reverse=True): a stable sort
RECURSIVE SortedDescending(_)
SortedDescending(entries) ==
    IF Len(entries) = 0 THEN <<>>
    ELSE InsertDescending(SortedDescending(SubSeq(entries, 1, Len(entries) - 1)),
                          entries[Len(entries)])

\* A mutant of get_leaderboard: sorted without reverse=True.
get_leaderboard_ascending(b) ==
    LET sorted == SortedDescending(b.balances)
    IN  [k \in 1..Len(sorted) |->
            [name |-> sorted[Len(sorted) + 1 - k].actor,
             balance |-> sorted[Len(sorted) + 1 - k].balance]]

\* Bank.get_leaderboard: the entries {"name", "balance"}, highest balance first
get_leaderboard(b) ==
    LET sorted == SortedDescending(b.balances)
    IN  [k \in 1..Len(sorted) |-> [name |-> sorted[k].actor, balance |-> sorted[k].balance]]

\* A mutant of AmountRejected: deposit and withdraw take any amount.
AmountRejected_never(amount) == FALSE

\* The guard of Bank.deposit and Bank.withdraw: amount < 0 raises ValueError.
AmountRejected(amount) == amount < 0

\* A mutant of TransferRejected: the solvency check is missing.
TransferRejected_no_funds_check(b, from_actor, amount) == amount <= 0

\* The guards of Bank.transfer: a non-positive amount or insufficient funds
\* raise ValueError before anything is written.
TransferRejected(b, from_actor, amount) ==
    amount <= 0 \/ get_balance(b, from_actor) < amount

\* Bank.transfer past its guards: debit then credit.
transfer(b, from_actor, to_actor, amount, reason) ==
    update_balance(
        update_balance(b, from_actor, -amount, <<"Transfer to", to_actor, reason>>),
        to_actor, amount, <<"Transfer from", from_actor, reason>>)

BankCall(op, status, actor, to, amount) ==
    [op |-> op, status |-> status, actor |-> actor, to |-> to, amount |-> amount]

Deposit(actor, amount) ==
    /\ IF AmountRejected(amount)
       THEN /\ bank' = bank
            /\ result' = BankCall("deposit", "ValueError", actor, actor, amount)
       ELSE /\ Len(bank.transaction_history) < MaxHistory
            /\ bank' = update_balance(bank, actor, amount, <<"r">>)
            /\ result' = BankCall("deposit", "ok", actor, actor, amount)
    /\ UNCHANGED <<storeVars, engineVars, frameVars>>
    /\ UNCHANGED toolVars
    /\ UNCHANGED other

Withdraw(actor, amount) ==
    /\ IF AmountRejected(amount)
       THEN /\ bank' = bank
            /\ result' = BankCall("withdraw", "ValueError", actor, actor, amount)
       ELSE /\ Len(bank.transaction_history) < MaxHistory
            /\ bank' = update_balance(bank, actor, -amount, <<"r">>)
            /\ result' = BankCall("withdraw", "ok", actor, actor, amount)
    /\ UNCHANGED <<storeVars, engineVars, frameVars>>
    /\ UNCHANGED toolVars
    /\ UNCHANGED other

\* What Bank.adjust_balance hands back: it has no return statement, so None (<<>>;
\* a balance n would be <<n>>).
adjust_balance_returned(b, actor, delta, reason) == <<>>

AdjustBalance(actor, delta) ==
    /\ Len(bank.transaction_history) < MaxHistory
    /\ bank' = adjust_balance(bank, actor, delta, <<"r">>)
    /\ result' = [op |-> "adjust_balance", status |-> "ok", actor |-> actor,
                  to |-> actor, amount |-> delta,
                  returned |-> adjust_balance_returned(bank, actor, delta, <<"r">>)]
    /\ UNCHANGED <<storeVars, engineVars, frameVars>>
    /\ UNCHANGED toolVars
    /\ UNCHANGED other

Transfer(from_actor, to_actor, amount) ==
    /\ IF TransferRejected(bank, from_actor, amount)
       THEN /\ bank' = bank
            /\ result' = BankCall("transfer", "ValueError", from_actor, to_actor, amount)
       ELSE /\ Len(bank.transaction_history) + 2 <= MaxHistory
            /\ bank' = transfer(bank, from_actor, to_actor, amount, "r")
            /\ result' = BankCall("transfer", "ok", from_actor, to_actor, amount)
    /\ UNCHANGED <<storeVars, engineVars, frameVars>>
    /\ UNCHANGED toolVars
    /\ UNCHANGED other

(***************************************************************************)
(* Constitution (src/backend/models.py).                                   *)
(***************************************************************************)
\* Constitution.__init__
NewConstitution == [text |-> OriginText, history |-> <<>>]

\* Constitution.query
query(c) == c.text

\* A mutant of UpdateRejected: the role name is compared ignoring case.
UpdateRejected_case_insensitive(by) ==
    by \notin {"PrincipleEvaluator", "principleevaluator"}

\* The guard of Constitution.update: by != "PrincipleEvaluator" raises PermissionError.
UpdateRejected(by) == by # DesignatedRole

\* A mutant of constitution_update: old_text is read after the text is replaced.
constitution_update_old_after(c, new_text, by) ==
    [text |-> new_text,
     history |-> Append(c.history,
        [updated_by |-> by, old_text |-> new_text, new_text |-> new_text])]

\* A mutant of constitution_update: old_text is the text of the file, not the
\* text the update replaces.
constitution_update_old_from_file(c, new_text, by) ==
    [text |-> new_text,
     history |-> Append(c.history,
        [updated_by |-> by, old_text |-> OriginText, new_text |-> new_text])]

\* Constitution.update past its guard
constitution_update(c, new_text, by) ==
    LET old_text == c.text
    IN  [text |-> new_text,
         history |-> Append(c.history,
            [updated_by |-> by, old_text |-> old_text, new_text |-> new_text])]

ConstitutionUpdate(new_text, by) ==
    /\ IF UpdateRejected(by)
       THEN /\ constitution' = constitution
            /\ result' = [op |-> "update", status |-> "PermissionError",
                          new_text |-> new_text, by |-> by]
       ELSE /\ Len(constitution.history) < MaxVersions
            /\ constitution' = constitution_update(constitution, new_text, by)
            /\ result' = [op |-> "update", status |-> "ok",
                          new_text |-> new_text, by |-> by]
    /\ UNCHANGED <<bankVars, engineVars, frameVars>>
    /\ UNCHANGED toolVars
    /\ UNCHANGED other

(***************************************************************************)
(* ContestEngine (src/backend/contest_engine.py) and the round's           *)
(* evaluation in PrincipleEvaluator (src/backend/models.py).               *)
(***************************************************************************)
\* The ids of the problems _load_problems creates, in sorted order.
ProblemIds == <<"001", "002", "003", "004", "005">>

\* ContestEngine._load_problems: n problems, none released yet.
LoadProblems(n) == [k \in 1..n |-> [id |-> ProblemIds[k], released_at |-> 0]]

\* ContestState.__init__
NewContestState ==
    [current_problem_index |-> 0, is_active |-> FALSE, start_time |-> 0,
     participants |-> <<>>]

\* The name under which the PrincipleEvaluator holds its own account.
EvaluatorName == "PrincipleEvaluator"

\* Seq membership of a name among the keys of a dict kept as a sequence
HasKey(keys, name) == \E k \in 1..Len(keys) : keys[k] = name

\* self.developers[developer.name] = developer
AddDeveloper(keys, name) == IF HasKey(keys, name) THEN keys ELSE Append(keys, name)

\* The engine frame when no call is running.
NoFrame ==
    /\ pc' = "idle"
    /\ driver' = "none"
    /\ cursor' = 0
    /\ all_submissions' = <<>>
    /\ execution_results' = <<>>
    /\ results' = <<>>
    /\ current_problem' = 0
    /\ UNCHANGED mark

EngineCall(op, status) == [op |-> op, status |-> status]

\* A mutant of emit_event: the exception of a callback is not caught, so the
\* callbacks after the first that raises are not called and the exception leaves
\* _emit_event.
emit_event_propagates(ev, event_type, about) ==
    IF ev.callbacks = 0 THEN ev
    ELSE LET event == [type |-> event_type, about |-> about]
             last == IF ev.raising = {} THEN ev.callbacks
                     ELSE CHOOSE k \in ev.raising : \A j \in ev.raising : k <= j
         IN  [ev EXCEPT !.seen = Append(@, event),
                        !.received = [k \in 1..ev.callbacks |->
                                         IF k <= last THEN Append(@[k], event) ELSE @[k]],
                        !.escaped = @ \/ ev.raising # {}]

\* ContestEngine._emit_event: every callback added is called with the event, kept
\* as its type and the developer or problem its data names ("" for neither); the
\* exception of a callback that raises is caught and logged.
emit_event(ev, event_type, about) ==
    IF ev.callbacks = 0 THEN ev
    ELSE LET event == [type |-> event_type, about |-> about]
         IN  [ev EXCEPT !.seen = Append(@, event),
                        !.received = [k \in 1..ev.callbacks |-> Append(@[k], event)],
                        !.logged = @ + Cardinality(ev.raising)]

\* ContestEngine.register_developer
RegisterDeveloper(name) ==
    /\ pc = "idle"
    /\ Len(state.participants) < MaxRegistrations
    /\ developers' = AddDeveloper(developers, name)
    /\ bank' = adjust_balance(bank, name, 0, <<"Initial registration">>)
    /\ state' = [state EXCEPT !.participants = Append(@, name)]
    /\ events' = emit_event(events, "developer_registered", name)
    /\ result' = EngineCall("register_developer", "ok")
    /\ UNCHANGED <<constitution, problems, submissions, feedback, phi4_available, clock,
                   frameVars>>
    /\ UNCHANGED toolVars
    /\ UNCHANGED other

\* A mutant of StartError: start_contest without its check of is_active.
StartError_no_active_check(st, probs) ==
    IF Len(probs) = 0 THEN "No problems loaded" ELSE ""

\* The guards of ContestEngine.start_contest: "" when it may start, else the error.
StartError(st, probs) ==
    IF st.is_active THEN "Contest is already active"
    ELSE IF Len(probs) = 0 THEN "No problems loaded"
    ELSE ""

\* ContestEngine.start_contest past its guards
start_contest(st, now) ==
    [st EXCEPT !.is_active = TRUE, !.start_time = now, !.current_problem_index = 0]

StartContest ==
    /\ pc = "idle"
    /\ clock < MaxClock
    /\ IF StartError(state, problems) # ""
       THEN /\ result' = EngineCall("start_contest", "Exception")
            /\ UNCHANGED <<state, clock, events>>
       ELSE /\ state' = start_contest(state, clock + 1)
            /\ clock' = clock + 1
            /\ events' = emit_event(events, "contest_started", "")
            /\ result' = EngineCall("start_contest", "ok")
    /\ UNCHANGED <<bank, constitution, problems, developers, submissions, feedback,
                   phi4_available, frameVars>>
    /\ UNCHANGED toolVars
    /\ UNCHANGED other

\* ContestEngine.get_current_problem: the 1-based position of the current problem
\* in problems, 0 for None
get_current_problem(st, probs) ==
    IF ~st.is_active \/ st.current_problem_index >= Len(probs)
    THEN 0
    ELSE st.current_problem_index + 1

\* The problem whose round is running: current_problem of run_contest_round.
CurrentProblem == problems[current_problem]

\* ContestEngine.submit_solution
SubmitSolution(developer_name) ==
    /\ pc = "idle"
    /\ IF get_current_problem(state, problems) = 0 \/ ~HasKey(developers, developer_name)
       THEN /\ result' = EngineCall("submit_solution", "False")
            /\ UNCHANGED <<submissions, events>>
       ELSE /\ Cardinality({k \in 1..Len(events.seen) :
                               events.seen[k].type = "submission_received"})
                 < MaxSubmitCalls
            /\ submissions' = submissions \cup
                   {[problem_id |-> problems[get_current_problem(state, problems)].id,
                     name |-> developer_name]}
            /\ events' = emit_event(events, "submission_received", developer_name)
            /\ result' = EngineCall("submit_solution", "True")
    /\ UNCHANGED <<bank, constitution, problems, state, developers, feedback,
                   phi4_available, clock, frameVars>>
    /\ UNCHANGED toolVars
    /\ UNCHANGED other

\* The position after iteration i of a loop over n items: the next iteration, or
\* the first position after the loop.
AfterIteration(loop, i, n, after) ==
    IF i < n THEN <<loop, i + 1>> ELSE <<after, 1>>

\* run_contest_round up to the first solicitation: release the problem.
BeginRound ==
    /\ clock < MaxClock
    /\ Len(bank.transaction_history) + Len(developers) + 1 <= MaxLedger
    /\ current_problem' = get_current_problem(state, problems)
    /\ problems' = [problems EXCEPT ![current_problem'].released_at = clock + 1]
    /\ clock' = clock + 1
    /\ events' = emit_event(events, "round_started", problems[current_problem'].id)
    /\ all_submissions' = <<>>
    /\ execution_results' = <<>>
    /\ results' = <<>>
    /\ mark' = [ledger |-> Len(bank.transaction_history), feedback |-> Len(feedback),
                 caught |-> ""]
    /\ IF Len(developers) = 0
       THEN pc' = "pe_reward" /\ cursor' = 1
       ELSE pc' = "solicit" /\ cursor' = 1

\* ContestEngine.run_contest_round, called on its own: returns at once when there
\* is no current problem.
RunContestRound ==
    /\ pc = "idle"
    /\ IF get_current_problem(state, problems) = 0
       THEN /\ result' = EngineCall("run_contest_round", "no round")
            /\ UNCHANGED <<problems, clock, events, frameVars>>
       ELSE /\ BeginRound
            /\ result' = EngineCall("run_contest_round", "running")
            /\ UNCHANGED driver
    /\ UNCHANGED <<bank, constitution, state, developers, submissions, feedback,
                   phi4_available>>
    /\ UNCHANGED toolVars
    /\ UNCHANGED other

\* An exception leaves run_contest_round (and run_full_contest above it).
RoundAborts(error) ==
    /\ NoFrame
    /\ result' = EngineCall(IF driver = "full" THEN "run_full_contest"
                            ELSE "run_contest_round", error)

\* A mutant of SolicitRaises: the exception of developer.query is not caught.
SolicitRaises_propagates ==
    /\ pc = "solicit"
    /\ RoundAborts("Exception")
    /\ UNCHANGED <<bank, constitution, engineVars>>
    /\ UNCHANGED toolVars
    /\ UNCHANGED other

\* The solicitation loop of run_contest_round: developer.query raises.
SolicitRaises ==
    /\ pc = "solicit"
    /\ LET next == AfterIteration("solicit", cursor, Len(developers),
                                  IF Len(all_submissions) = 0 THEN "pe_reward"
                                  ELSE "extract")
       IN  pc' = next[1] /\ cursor' = next[2]
    /\ UNCHANGED <<bank, constitution, result, engineVars, driver, all_submissions,
                   execution_results, results, mark, current_problem>>
    /\ UNCHANGED toolVars
    /\ UNCHANGED other

\* The solicitation loop: developer.query returns full_response after response_time.
SolicitReturns(full_response, response_time) ==
    /\ pc = "solicit"
    /\ all_submissions' = Append(all_submissions,
          [name |-> developers[cursor], full_response |-> full_response,
           response_time |-> response_time])
    /\ LET next == AfterIteration("solicit", cursor, Len(developers), "extract")
       IN  pc' = next[1] /\ cursor' = next[2]
    /\ UNCHANGED <<bank, constitution, result, engineVars, driver, execution_results,
                   results, mark, current_problem>>
    /\ UNCHANGED toolVars
    /\ UNCHANGED other

\* The solicitation loop: developer.query never returns; nothing bounds the call.
SolicitHangs ==
    /\ pc = "solicit"
    /\ pc' = "hung"
    /\ UNCHANGED <<bank, constitution, result, engineVars, driver, cursor,
                   all_submissions, execution_results, results, mark, current_problem>>
    /\ UNCHANGED toolVars
    /\ UNCHANGED other

\* ContestEngine._extract_function_code on the response of a developer: re.search
\* raises TypeError unless the response is text.
ExtractRaises(full_response) == full_response # "text"

\* CodeSandbox.execute_code when the run cannot be launched or fails inside.
SandboxFailure == [success |-> FALSE, tests_passed |-> 0, total_tests |-> 1]

\* A mutant of ExtractAndExecute: the reward loop starts after the first execution.
ExtractAndExecute_first_only(outcome) ==
    /\ pc = "extract"
    /\ LET s == all_submissions[cursor]
       IN  /\ submissions' = submissions \cup
                  {[problem_id |-> CurrentProblem.id, name |-> s.name]}
           /\ execution_results' = Append(execution_results,
                  [name |-> s.name, result |-> outcome,
                   response_time |-> s.response_time])
           /\ pc' = "reward" /\ cursor' = 1
           /\ UNCHANGED <<result, driver, all_submissions, results, mark, current_problem>>
    /\ UNCHANGED <<bank, constitution, problems, state, developers, feedback,
                   phi4_available, clock>>
    /\ UNCHANGED toolVars
    /\ UNCHANGED other
    /\ UNCHANGED events

\* The first loop of evaluate_submissions_simple: extract, store, execute.
ExtractAndExecute(outcome) ==
    /\ pc = "extract"
    /\ LET s == all_submissions[cursor]
       IN  IF ExtractRaises(s.full_response)
           THEN /\ RoundAborts("TypeError")
                /\ UNCHANGED submissions
           ELSE /\ submissions' = submissions \cup
                       {[problem_id |-> CurrentProblem.id, name |-> s.name]}
                /\ execution_results' = Append(execution_results,
                       [name |-> s.name, result |-> outcome,
                        response_time |-> s.response_time])
                /\ LET next == AfterIteration("extract", cursor, Len(all_submissions),
                                              "reward")
                   IN  pc' = next[1] /\ cursor' = next[2]
                /\ UNCHANGED <<result, driver, all_submissions, results, mark, current_problem>>
    /\ UNCHANGED <<bank, constitution, problems, state, developers, feedback,
                   phi4_available, clock>>
    /\ UNCHANGED toolVars
    /\ UNCHANGED other
    /\ UNCHANGED events

(***************************************************************************)
(* Rewards.  Times are in tenths of a second; a generated reply is <<>>    *)
(* (generate returned None or raised) or <<n>>, n the amount it states.    *)
(***************************************************************************)
\* Reward of a run that passes every test (models.py:577).
RewardAllPass == 1000
\* Penalty of any other run (models.py:579).
PenaltyFailing == 500
\* Penalty per second of response time (models.py:582).
LatencyRate == 5
\* Tenths of a second per second, the unit of response_time in this model.
TenthsPerSecond == 10
\* The bound _extract_reward_from_response clamps to (models.py:518).
RewardCap == 10000
\* What the PrincipleEvaluator pays itself per round (models.py:666).
EvaluationFee == 1000

\* A mutant of fallback_reward_calculation: a run that passes some of its tests is
\* not penalised.
fallback_reward_calculation_partial_credit(r, response_time) ==
    (IF r.success /\ r.tests_passed = r.total_tests THEN RewardAllPass
     ELSE IF ~r.success \/ r.tests_passed = 0 THEN -PenaltyFailing
     ELSE 0)
    - ((LatencyRate * response_time) \div TenthsPerSecond)

\* PrincipleEvaluator._fallback_reward_calculation
fallback_reward_calculation(r, response_time) ==
    (IF r.success /\ r.tests_passed = r.total_tests THEN RewardAllPass
     ELSE IF ~r.success \/ r.tests_passed < r.total_tests THEN -PenaltyFailing
     ELSE 0)
    - ((LatencyRate * response_time) \div TenthsPerSecond)

\* PrincipleEvaluator._extract_reward_from_response on a reply stating amount n
extract_reward_from_response(n) ==
    IF n > RewardCap THEN RewardCap ELSE IF n < -RewardCap THEN -RewardCap ELSE n

\* PrincipleEvaluator._calculate_individual_reward
calculate_individual_reward(available, generated, r, response_time) ==
    IF ~available \/ Len(generated) = 0
    THEN fallback_reward_calculation(r, response_time)
    ELSE extract_reward_from_response(generated[1])

\* The reason evaluate_submissions_simple gives a reward transaction.
SubmissionReason(problem_id) == <<"Problem", problem_id, "submission">>

\* The reason of the PrincipleEvaluator's own transaction.
EvaluationReason(problem_id) == <<"Problem", problem_id, "evaluation">>

\* A mutant of post_reward: the reward goes to self.name, the evaluator's account.
post_reward_to_self(b, name, reward, problem_id) ==
    adjust_balance(b, EvaluatorName, reward, SubmissionReason(problem_id))

\* engine.bank.adjust_balance(dev_name, reward, f"Problem {problem.id} submission")
post_reward(b, name, reward, problem_id) ==
    adjust_balance(b, name, reward, SubmissionReason(problem_id))

\* The second loop of evaluate_submissions_simple: one reward per submission.
RewardSubmission(generated) ==
    /\ pc = "reward"
    /\ LET name == all_submissions[cursor].name
           er == execution_results[cursor]
           reward == calculate_individual_reward(phi4_available, generated, er.result,
                                                 er.response_time)
           next == AfterIteration("reward", cursor, Len(all_submissions), "pe_reward")
       IN  /\ bank' = post_reward(bank, name, reward, CurrentProblem.id)
           /\ results' = Append(results,
                [name |-> name, result |-> er.result, reward |-> reward,
                 response_time |-> er.response_time,
                 constitution |-> query(constitution)])
           /\ pc' = next[1] /\ cursor' = next[2]
    /\ UNCHANGED <<constitution, result, engineVars, driver, all_submissions,
                   execution_results, mark, current_problem>>
    /\ UNCHANGED toolVars
    /\ UNCHANGED other

\* A mutant of RewardEvaluator: the ruleset check comes before the feedback loop.
RewardEvaluator_then_check ==
    /\ pc = "pe_reward"
    /\ bank' = adjust_balance(bank, EvaluatorName, EvaluationFee,
                              EvaluationReason(CurrentProblem.id))
    /\ pc' = "constitution_check"
    /\ cursor' = 1
    /\ UNCHANGED <<constitution, result, engineVars, driver, all_submissions,
                   execution_results, results, mark, current_problem>>
    /\ UNCHANGED toolVars
    /\ UNCHANGED other

\* The end of evaluate_submissions_simple: the evaluator's own transaction.
RewardEvaluator ==
    /\ pc = "pe_reward"
    /\ bank' = adjust_balance(bank, EvaluatorName, EvaluationFee,
                              EvaluationReason(CurrentProblem.id))
    /\ IF Len(developers) = 0
       THEN pc' = "constitution_check"
       ELSE pc' = "feedback"
    /\ cursor' = 1
    /\ UNCHANGED <<constitution, result, engineVars, driver, all_submissions,
                   execution_results, results, mark, current_problem>>
    /\ UNCHANGED toolVars
    /\ UNCHANGED other

\* The entry of name in evaluation_result["results"], 0 when absent
ResultIndex(res, name) ==
    IF \E k \in 1..Len(res) : res[k].name = name
    THEN CHOOSE k \in 1..Len(res) : res[k].name = name
    ELSE 0

\* A mutant of feedback_record: the reward is read under a key the result data
\* does not hold, so result_data.get gives its default.
feedback_record_default_reward(name, problem_id, result_data, b, c) ==
    [name |-> name, problem_id |-> problem_id, reward |-> 0,
     bank_balance |-> get_balance(b, name), constitution |-> query(c)]

\* The feedback dict run_contest_round builds for a developer.
feedback_record(name, problem_id, result_data, b, c) ==
    [name |-> name, problem_id |-> problem_id, reward |-> result_data.reward,
     bank_balance |-> get_balance(b, name), constitution |-> query(c)]

\* The feedback loop of run_contest_round: one iteration; dev.update returns or raises.
SendFeedback(update_raises) ==
    /\ pc = "feedback"
    /\ LET name == developers[cursor]
           k == ResultIndex(results, name)
           next == AfterIteration("feedback", cursor, Len(developers),
                                  "constitution_check")
       IN  IF k = 0
           THEN /\ ~update_raises
                /\ pc' = next[1] /\ cursor' = next[2]
                /\ UNCHANGED <<feedback, result, driver, all_submissions,
                               execution_results, results, mark, current_problem>>
           ELSE /\ feedback' = Append(feedback,
                       feedback_record(name, CurrentProblem.id, results[k], bank,
                                       constitution))
                /\ IF update_raises
                   THEN RoundAborts("Exception")
                   ELSE /\ pc' = next[1] /\ cursor' = next[2]
                        /\ UNCHANGED <<result, driver, all_submissions,
                                       execution_results, results, mark, current_problem>>
    /\ UNCHANGED <<bank, constitution, problems, state, developers, submissions,
                   phi4_available, clock>>
    /\ UNCHANGED toolVars
    /\ UNCHANGED other
    /\ UNCHANGED events

\* PrincipleEvaluator.check_and_update_constitution: new_text is <<>> when the
\* model is unavailable or elects no update, else <<text>>; update_raises says
\* that engine.constitution.update fails.  The except clause keeps the text.
check_and_update_constitution(c, available, new_text, update_raises) ==
    IF ~available \/ Len(new_text) = 0 \/ update_raises \/ UpdateRejected(DesignatedRole)
    THEN c
    ELSE constitution_update(c, new_text[1], DesignatedRole)

\* What the except clause of check_and_update_constitution caught and printed:
\* the update is only reached with the model available and a new text extracted.
caught_in_check(available, new_text, update_raises) ==
    IF available /\ Len(new_text) > 0 /\ (update_raises \/ UpdateRejected(DesignatedRole))
    THEN "PermissionError"
    ELSE ""

\* The ruleset check of run_contest_round.
CheckConstitution(new_text, update_raises) ==
    /\ pc = "constitution_check"
    /\ update_raises => (phi4_available /\ Len(new_text) > 0)
    /\ constitution' = check_and_update_constitution(constitution, phi4_available,
                                                      new_text, update_raises)
    /\ mark' = [mark EXCEPT !.caught =
                    caught_in_check(phi4_available, new_text, update_raises)]
    /\ events' = emit_event(events, "round_completed", CurrentProblem.id)
    /\ pc' = "advance"
    /\ UNCHANGED <<bank, result, problems, state, developers, submissions, feedback,
                   phi4_available, clock, driver, cursor, current_problem,
                   all_submissions, execution_results, results>>
    /\ UNCHANGED toolVars
    /\ UNCHANGED other

\* ContestEngine._end_contest
end_contest(st) == [st EXCEPT !.is_active = FALSE]

\* The winner _end_contest reports: the name of leaderboard[0], "" for None
winner(b) ==
    LET leaderboard == get_leaderboard(b)
    IN  IF Len(leaderboard) = 0 THEN "" ELSE leaderboard[1].name

\* A mutant of advance: the last round ends the contest before the index is moved.
advance_end_before_move(st, probs) ==
    IF st.current_problem_index + 1 >= Len(probs) THEN end_contest(st)
    ELSE [st EXCEPT !.current_problem_index = @ + 1]

\* The last lines of run_contest_round: move to the next problem, end after the last.
advance(st, probs) ==
    LET moved == [st EXCEPT !.current_problem_index = @ + 1]
    IN  IF moved.current_problem_index >= Len(probs) THEN end_contest(moved) ELSE moved

Advance ==
    /\ pc = "advance"
    /\ state' = advance(state, problems)
    /\ events' = IF state'.is_active THEN events
                 ELSE emit_event(events, "contest_ended", winner(bank))
    /\ result' = EngineCall("run_contest_round", "ok")
    /\ pc' = IF driver = "full" THEN "loop" ELSE "idle"
    /\ cursor' = 0
    /\ current_problem' = 0
    /\ all_submissions' = <<>>
    /\ execution_results' = <<>>
    /\ results' = <<>>
    /\ mark' = [mark EXCEPT !.caught = ""]
    /\ UNCHANGED <<bank, constitution, problems, developers, submissions, feedback,
                   phi4_available, clock, driver>>
    /\ UNCHANGED toolVars
    /\ UNCHANGED other

\* ContestEngine.get_contest_status, without the problem text and the leaderboard
get_contest_status(st, probs) ==
    [is_active |-> st.is_active, start_time |-> st.start_time,
     current_problem_index |-> st.current_problem_index,
     total_problems |-> Len(probs), participants |-> st.participants]

\* ContestEngine.run_full_contest up to its loop: start the contest unless active.
RunFullContest ==
    /\ pc = "idle"
    /\ IF state.is_active
       THEN /\ pc' = "loop" /\ driver' = "full"
            /\ result' = EngineCall("run_full_contest", "running")
            /\ UNCHANGED <<state, clock, events>>
       ELSE /\ clock < MaxClock
            /\ IF StartError(state, problems) # ""
               THEN /\ result' = EngineCall("run_full_contest", "Exception")
                    /\ UNCHANGED <<state, clock, events, pc, driver>>
               ELSE /\ state' = start_contest(state, clock + 1)
                    /\ clock' = clock + 1
                    /\ events' = emit_event(events, "contest_started", "")
                    /\ pc' = "loop" /\ driver' = "full"
                    /\ result' = EngineCall("run_full_contest", "running")
    /\ UNCHANGED <<bank, constitution, problems, developers, submissions, feedback,
                   phi4_available, cursor, all_submissions, execution_results, results,
                   mark, current_problem>>
    /\ UNCHANGED toolVars
    /\ UNCHANGED other

\* The loop condition of run_full_contest
MoreRounds(st, probs) == st.is_active /\ st.current_problem_index < Len(probs)

\* The while loop of run_full_contest: run the next round, or return.
FullContestLoop ==
    /\ pc = "loop"
    /\ IF MoreRounds(state, problems)
       THEN /\ BeginRound
            /\ UNCHANGED <<result, driver>>
       ELSE /\ NoFrame
            /\ result' = EngineCall("run_full_contest", "ok")
            /\ UNCHANGED <<problems, clock, events>>
    /\ UNCHANGED <<bank, constitution, state, developers, submissions, feedback,
                   phi4_available>>
    /\ UNCHANGED toolVars
    /\ UNCHANGED other

(***************************************************************************)
(* A second caller of run_contest_round on the same engine, as a second    *)
(* dashboard session's step_contest (src/app.py): the engine is one object *)
(* shared through st.cache_resource and nothing serialises its callers.    *)
(* The second caller runs the same method; its steps end where the method  *)
(* next reads or writes the engine, every developer answers it, and the    *)
(* model gives it no reply.                                                *)
(***************************************************************************)
\* step_contest and run_contest_round up to the solicitation: the caller takes the
\* current problem and releases it.
OtherBegins ==
    /\ other.pc = "idle"
    /\ get_current_problem(state, problems) # 0
    /\ clock < MaxClock
    /\ LET p == get_current_problem(state, problems)
       IN  /\ other' = [pc |-> "solicit", current_problem |-> p]
           /\ problems' = [problems EXCEPT ![p].released_at = clock + 1]
           /\ clock' = clock + 1
           /\ events' = emit_event(events, "round_started", problems[p].id)
    /\ UNCHANGED <<bank, constitution, result, state, developers, submissions, feedback,
                   phi4_available, frameVars, sandbox, probe>>

\* The solicitation loop: every developer answers with text after response_time.
OtherSolicits(response_time) ==
    /\ other.pc = "solicit"
    /\ other' = [pc |-> "evaluate", current_problem |-> other.current_problem,
                 all_submissions |->
                    [k \in 1..Len(developers) |->
                        [name |-> developers[k], full_response |-> "text",
                         response_time |-> response_time]]]
    /\ UNCHANGED <<bank, constitution, result, engineVars, frameVars, sandbox, probe>>

\* The reward loop of evaluate_submissions_simple over the results res
RECURSIVE post_rewards(_, _, _)
post_rewards(b, res, problem_id) ==
    IF Len(res) = 0 THEN b
    ELSE post_rewards(post_reward(b, res[1].name, res[1].reward, problem_id),
                      Tail(res), problem_id)

\* evaluate_submissions_simple: every submission runs to outcome, each is rewarded,
\* and the evaluator is paid.
OtherEvaluates(outcome) ==
    /\ other.pc = "evaluate"
    /\ LET problem_id == problems[other.current_problem].id
           res == [k \in 1..Len(other.all_submissions) |->
                     LET s == other.all_submissions[k]
                     IN  [name |-> s.name, result |-> outcome,
                          reward |-> calculate_individual_reward(
                                        phi4_available, <<>>, outcome, s.response_time),
                          response_time |-> s.response_time,
                          constitution |-> query(constitution)]]
       IN  /\ submissions' = submissions \cup
                  {[problem_id |-> problem_id, name |-> res[k].name] : k \in 1..Len(res)}
           /\ bank' = adjust_balance(post_rewards(bank, res, problem_id), EvaluatorName,
                                     EvaluationFee, EvaluationReason(problem_id))
           /\ other' = [pc |-> "feedback", current_problem |-> other.current_problem,
                        all_submissions |-> other.all_submissions, results |-> res]
    /\ UNCHANGED <<constitution, result, problems, state, developers, feedback,
                   phi4_available, clock, events, frameVars, sandbox, probe>>

\* The feedback loop and the ruleset check: every developer with a result is
\* updated, the ruleset is left as it is, round_completed is emitted.
OtherFeedbackAndCheck ==
    /\ other.pc = "feedback"
    /\ LET problem_id == problems[other.current_problem].id
           known == SelectSeq(other.results, LAMBDA r : HasKey(developers, r.name))
       IN  /\ feedback' = feedback \o
                  [k \in 1..Len(known) |->
                      feedback_record(known[k].name, problem_id, known[k], bank,
                                      constitution)]
           /\ events' = emit_event(events, "round_completed", problem_id)
    /\ other' = [pc |-> "advance", current_problem |-> other.current_problem]
    /\ UNCHANGED <<bank, constitution, result, problems, state, developers, submissions,
                   phi4_available, clock, frameVars, sandbox, probe>>

\* The last lines of run_contest_round: the index moves on, the contest ends after
\* the last problem.
OtherAdvances ==
    /\ other.pc = "advance"
    /\ state' = advance(state, problems)
    /\ events' = IF state'.is_active THEN events
                 ELSE emit_event(events, "contest_ended", winner(bank))
    /\ other' = [pc |-> "idle"]
    /\ UNCHANGED <<bank, constitution, result, problems, developers, submissions,
                   feedback, phi4_available, clock, frameVars, sandbox, probe>>

(***************************************************************************)
(* Specifications.                                                         *)
(***************************************************************************)
NoCall == [op |-> "none", status |-> "ok"]

\* The callbacks added, those among them (by position) whose call raises, and
\* nothing emitted yet: seen holds the events emitted, received what each callback
\* was called with, logged the number of errors _emit_event has logged, escaped
\* whether an exception has left _emit_event.
EventsWith(callbacks, raising) ==
    [callbacks |-> callbacks, raising |-> raising, seen |-> <<>>,
     received |-> [k \in 1..callbacks |-> <<>>], logged |-> 0, escaped |-> FALSE]

\* No event seen yet by the callbacks added, none of which raises.
NewEvents(callbacks) == EventsWith(callbacks, {})

\* ContestEngine.__init__ with n problems loaded, then add_event_callback for the
\* callbacks of observers
InitEngineObserved(n, available, observers) ==
    /\ bank = EmptyBank
    /\ constitution = NewConstitution
    /\ result = NoCall
    /\ problems = LoadProblems(n)
    /\ state = NewContestState
    /\ developers = <<>>
    /\ submissions = {}
    /\ feedback = <<>>
    /\ phi4_available = available
    /\ clock = 0
    /\ events = observers
    /\ pc = "idle"
    /\ driver = "none"
    /\ cursor = 0
    /\ current_problem = 0
    /\ all_submissions = <<>>
    /\ execution_results = <<>>
    /\ results = <<>>
    /\ mark = [ledger |-> 0, feedback |-> 0, caught |-> ""]

\* ContestEngine.__init__ with n problems loaded, then add_event_callback that many
\* times, with callbacks that return
InitEngineWith(n, available, callbacks) ==
    InitEngineObserved(n, available, NewEvents(callbacks))

\* ContestEngine.__init__ with n problems loaded: no callback is added
InitEngine(n, available) == InitEngineWith(n, available, 0)

\* No CodeSandbox constructed yet, no text function applied.
NoSandbox == [pc |-> "none"]
NoProbe == [op |-> "none"]
\* No second caller is in run_contest_round.
NoOther == [pc |-> "idle"]
ToolsIdle == sandbox = NoSandbox /\ probe = NoProbe /\ other = NoOther

\* How many problems _load_problems found (the data set gives up to five, a missing
\* data file none).
ProblemCounts == {0, 1, 2}

Init ==
    /\ \E n \in ProblemCounts, available \in BOOLEAN : InitEngine(n, available)
    /\ ToolsIdle

\* The Bank and the Constitution on their own.
InitStores == InitEngine(0, FALSE) /\ ToolsIdle

\* Response times of developer.query, in tenths of a second.
FastResponse == 1
SlowResponse == 3
ResponseTimes == {FastResponse, SlowResponse}
\* Execution outcomes of the sandbox.
Outcomes ==
    {[success |-> TRUE, tests_passed |-> 3, total_tests |-> 3],
     [success |-> FALSE, tests_passed |-> 0, total_tests |-> 3],
     SandboxFailure}
\* Replies of the model to a reward prompt.
RewardReplies == {<<>>, <<250>>}
\* Replies of the model to the constitution prompt.
ConstitutionReplies == {<<>>, <<"rules A">>}
\* Names of the developers that register.
Developers == {"Alice", "Bob"}
\* Names are labels: the first developer to register is called Alice.
Registrants == IF HasKey(developers, "Alice") THEN Developers ELSE {"Alice"}

Next ==
    \/ \E name \in Registrants : RegisterDeveloper(name)
    \/ StartContest
    \/ RunContestRound
    \/ RunFullContest
    \/ FullContestLoop
    \/ SolicitRaises
    \/ \E t \in ResponseTimes : SolicitReturns("text", t)
    \/ SolicitReturns("nontext", SlowResponse)
    \/ SolicitHangs
    \/ \E o \in Outcomes : ExtractAndExecute(o)
    \/ \E g \in RewardReplies : RewardSubmission(g)
    \/ RewardEvaluator
    \/ \E raises \in BOOLEAN : SendFeedback(raises)
    \/ \E t \in ConstitutionReplies, raises \in BOOLEAN : CheckConstitution(t, raises)
    \/ Advance

Spec == Init /\ [][Next]_vars

\* The engine with one event callback added, and submit_solution among its calls.
\* No event depends on the model, which is taken as not available.
InitEvents ==
    /\ \E n \in ProblemCounts : InitEngineWith(n, FALSE, 1)
    /\ ToolsIdle

NextEvents ==
    \/ Next
    \/ \E name \in Developers : SubmitSolution(name)

SpecEvents == InitEvents /\ [][NextEvents]_vars

\* The engine with one problem and two event callbacks added, of which any may
\* be one that raises whenever it is called.
InitCallbacks ==
    /\ \E raising \in SUBSET {1, 2} :
          InitEngineObserved(1, FALSE, EventsWith(2, raising))
    /\ ToolsIdle

SpecCallbacks == InitCallbacks /\ [][Next]_vars

\* initialize_contest of the dashboard (src/app.py) on an engine with n problems:
\* the state and the bank are reset, Alice and Bob are registered, the contest is
\* started.
initialize_contest(n, available) ==
    /\ bank = adjust_balance(adjust_balance(EmptyBank, "Alice", 0,
                                            <<"Initial registration">>),
                             "Bob", 0, <<"Initial registration">>)
    /\ constitution = NewConstitution
    /\ result = EngineCall("start_contest", "ok")
    /\ problems = LoadProblems(n)
    /\ state = start_contest([NewContestState EXCEPT !.participants = <<"Alice", "Bob">>],
                             1)
    /\ developers = <<"Alice", "Bob">>
    /\ submissions = {}
    /\ feedback = <<>>
    /\ phi4_available = available
    /\ clock = 1
    /\ events = NewEvents(0)
    /\ pc = "idle"
    /\ driver = "none"
    /\ cursor = 0
    /\ current_problem = 0
    /\ all_submissions = <<>>
    /\ execution_results = <<>>
    /\ results = <<>>
    /\ mark = [ledger |-> 0, feedback |-> 0, caught |-> ""]

\* The dashboard after Initialize Contest, with problems loaded and the model not
\* available.
InitStep ==
    /\ \E n \in ProblemCounts \ {0} : initialize_contest(n, FALSE)
    /\ ToolsIdle

\* Two dashboard sessions step the contest: one through run_contest_round as modelled
\* above, with developers that answer and take their feedback, the other as the
\* second caller.
NextStep ==
    \/ RunContestRound
    \/ SolicitRaises
    \/ \E t \in ResponseTimes : SolicitReturns("text", t)
    \/ \E o \in Outcomes : ExtractAndExecute(o)
    \/ \E g \in RewardReplies : RewardSubmission(g)
    \/ RewardEvaluator
    \/ SendFeedback(FALSE)
    \/ \E t \in ConstitutionReplies : CheckConstitution(t, FALSE)
    \/ Advance
    \/ OtherBegins
    \/ \E t \in ResponseTimes : OtherSolicits(t)
    \/ \E o \in Outcomes : OtherEvaluates(o)
    \/ OtherFeedbackAndCheck
    \/ OtherAdvances

SpecStep == InitStep /\ [][NextStep]_vars

\* Direct calls of the Bank's write methods, accepted or rejected.
NextBank ==
    \/ \E a \in Actors, n \in Amounts : Deposit(a, n)
    \/ \E a \in Actors, n \in Amounts : Withdraw(a, n)
    \/ \E a \in Actors, n \in Amounts : AdjustBalance(a, n)
    \/ \E a \in Actors, b \in Actors, n \in Amounts : Transfer(a, b, n)

SpecBank == InitStores /\ [][NextBank]_vars

\* Calls of Constitution.update by any author.
NextConstitution ==
    \E t \in Texts, by \in Authors : ConstitutionUpdate(t, by)

SpecConstitution == InitStores /\ [][NextConstitution]_vars

(***************************************************************************)
(* Properties of the Bank.                                                 *)
(***************************************************************************)
\* The sum of the deltas of the transactions of actor in a history
RECURSIVE SumOfDeltas(_, _)
SumOfDeltas(history, actor) ==
    IF Len(history) = 0 THEN 0
    ELSE SumOfDeltas(SubSeq(history, 1, Len(history) - 1), actor)
         + (IF history[Len(history)].actor = actor THEN history[Len(history)].delta ELSE 0)

HasTransaction(history, actor) == \E k \in 1..Len(history) : history[k].actor = actor

\* C1: after any sequence of deposit, withdraw, adjust_balance and transfer calls,
\* accepted or rejected, get_balance(actor) is the sum of the deltas of the transactions
\* recorded for actor, and 0 for an actor with no transaction.
C1_BalanceIsSumOfDeltas ==
    \A actor \in Actors :
        /\ get_balance(bank, actor) = SumOfDeltas(bank.transaction_history, actor)
        /\ ~HasTransaction(bank.transaction_history, actor) => get_balance(bank, actor) = 0

\* C1's case: a rejected call after accepted ones, one actor with several
\* transactions and a balance that is not 0, the other with none.
C1_Witness ==
    /\ result.status = "ValueError"
    /\ Len(bank.transaction_history) = MaxHistory
    /\ \E a \in Actors :
         /\ Cardinality({k \in 1..Len(bank.transaction_history) :
                            bank.transaction_history[k].actor = a}) >= 2
         /\ get_balance(bank, a) # 0
    /\ \E a \in Actors : ~HasTransaction(bank.transaction_history, a)

\* C2: transfer(a, b, amount) with amount > 0 and balance(a) < amount fails with an
\* error and leaves the balances and the transaction history as they were; any
\* transfer either changes nothing or records the debit together with its credit.
C2_TransferAtomic ==
    [][result'.op = "transfer" =>
         /\ (result'.amount > 0 /\ get_balance(bank, result'.actor) < result'.amount)
              => (result'.status = "ValueError" /\ bank' = bank)
         /\ \/ bank' = bank
            \/ LET h == bank'.transaction_history
                   n == Len(bank.transaction_history)
               IN  /\ Len(h) = n + 2
                   /\ SubSeq(h, 1, n) = bank.transaction_history
                   /\ h[n + 1].actor = result'.actor /\ h[n + 1].delta = -result'.amount
                   /\ h[n + 2].actor = result'.to /\ h[n + 2].delta = result'.amount
    ]_vars

\* C2's case: a transfer of more than the sender's positive balance was rejected.
C2_Witness ==
    /\ result.op = "transfer"
    /\ result.status = "ValueError"
    /\ result.amount > 0
    /\ get_balance(bank, result.actor) > 0
    /\ get_balance(bank, result.actor) < result.amount

\* The position of the first transaction of actor in a history
FirstTransaction(history, actor) ==
    CHOOSE k \in 1..Len(history) :
        /\ history[k].actor = actor
        /\ \A j \in 1..(k - 1) : history[j].actor # actor

\* C21: get_leaderboard lists every actor that has a transaction exactly once, with
\* its balance, in non-increasing order of balance; actors of equal balance come in
\* the order of their first transactions in the ledger.
C21_LeaderboardOrder ==
    LET lb == get_leaderboard(bank)
        h == bank.transaction_history
    IN  /\ {lb[k].name : k \in 1..Len(lb)} = {a \in Actors : HasTransaction(h, a)}
        /\ \A i, j \in 1..Len(lb) : lb[i].name = lb[j].name => i = j
        /\ \A k \in 1..Len(lb) : lb[k].balance = get_balance(bank, lb[k].name)
        /\ \A i, j \in 1..Len(lb) :
              i < j =>
                /\ lb[i].balance >= lb[j].balance
                /\ lb[i].balance = lb[j].balance =>
                      FirstTransaction(h, lb[i].name) < FirstTransaction(h, lb[j].name)

\* C21's case: two actors came to the same balance, not 0, after the one that
\* transacted second had held more than the other.
C21_Witness ==
    LET lb == get_leaderboard(bank)
        h == bank.transaction_history
    IN  /\ Len(lb) = 2
        /\ lb[1].balance = lb[2].balance
        /\ lb[1].balance # 0
        /\ \E k \in 1..Len(h) :
              h[k].actor = lb[2].name /\ h[k].new_balance > lb[1].balance

\* The actor filters and the limits get_history is called with.
HistoryFilters == {<<>>} \cup {<<a>> : a \in Actors}
HistoryLimits == 0..(MaxHistory + 1)

\* The transactions of a history that match a filter, in the order recorded
Matching(history, actor) ==
    SelectSeq(history, LAMBDA t : actor = <<>> \/ t.actor = actor[1])

\* C22: get_history(actor, limit) is the last min(limit, n) of the n transactions
\* that match the filter, in the order recorded, for every limit >= 0; it never holds
\* more than limit transactions.
C22_HistoryLastN ==
    \A actor \in HistoryFilters, limit \in HistoryLimits :
        LET matching == Matching(bank.transaction_history, actor)
            n == Len(matching)
            m == IF limit < n THEN limit ELSE n
            got == get_history(bank, actor, limit)
        IN  /\ got = SubSeq(matching, n - m + 1, n)
            /\ Len(got) <= limit

\* C23: adjust_balance(actor, delta, reason), whatever the sign of delta and of the
\* resulting balance, succeeds, appends exactly one transaction whose new balance is
\* the prior balance plus delta, and returns that new balance.
C23_AdjustAppendsAndReturnsBalance ==
    [][result'.op = "adjust_balance" =>
         LET h == bank'.transaction_history
             n == Len(bank.transaction_history)
             new_balance == get_balance(bank, result'.actor) + result'.amount
         IN  /\ result'.status = "ok"
             /\ Len(h) = n + 1
             /\ SubSeq(h, 1, n) = bank.transaction_history
             /\ h[n + 1].actor = result'.actor
             /\ h[n + 1].delta = result'.amount
             /\ h[n + 1].new_balance = new_balance
             /\ get_balance(bank', result'.actor) = new_balance
             /\ result'.returned = <<new_balance>>
    ]_vars

\* C26: a deposit or a withdraw of a negative amount, and a transfer of an amount
\* that is not positive, end in an error and leave every balance and the transaction
\* history as they were.
C26_InvalidAmountRejected ==
    [][(\/ result'.op \in {"deposit", "withdraw"} /\ result'.amount < 0
        \/ result'.op = "transfer" /\ result'.amount <= 0)
         => (result'.status = "ValueError" /\ bank' = bank)
    ]_vars

\* C26's case: a withdraw of a negative amount was rejected by a Bank that holds
\* transactions and a balance that is not 0 for the actor.
C26_Witness ==
    /\ result.op = "withdraw"
    /\ result.status = "ValueError"
    /\ result.amount < 0
    /\ Len(bank.transaction_history) > 0
    /\ get_balance(bank, result.actor) # 0

(***************************************************************************)
(* Properties of the Constitution.                                         *)
(***************************************************************************)
\* C4: update(new_text, by) with by other than "PrincipleEvaluator" fails with a
\* permission error, leaves query() unchanged and appends nothing to the history.
C4_UnauthorizedUpdateRejected ==
    [][(result'.op = "update" /\ result'.by # "PrincipleEvaluator") =>
         /\ result'.status = "PermissionError"
         /\ query(constitution') = query(constitution)
         /\ constitution'.history = constitution.history
    ]_vars

\* C4's case: a rejected update, by a name that differs only in case, of a text that
\* is not the current one, after an authorized update.
C4_Witness ==
    /\ result.op = "update"
    /\ result.status = "PermissionError"
    /\ result.by = "principleevaluator"
    /\ result.new_text # query(constitution)
    /\ Len(constitution.history) >= 1

\* C5: every update(new_text, "PrincipleEvaluator") appends exactly one history entry
\* whose old_text is what query() returned before the call and whose new_text is the
\* argument, and afterwards query() returns new_text.
C5_AuthorizedUpdateAppendsOne ==
    [][(result'.op = "update" /\ result'.by = "PrincipleEvaluator") =>
         LET h == constitution'.history
             n == Len(constitution.history)
         IN  /\ result'.status = "ok"
             /\ Len(h) = n + 1
             /\ SubSeq(h, 1, n) = constitution.history
             /\ h[n + 1].old_text = query(constitution)
             /\ h[n + 1].new_text = result'.new_text
             /\ query(constitution') = result'.new_text
    ]_vars

\* C5's case: a second authorized update, whose old_text is neither the origin text
\* nor its new_text.
C5_Witness ==
    /\ result.op = "update"
    /\ result.status = "ok"
    /\ Len(constitution.history) >= 2
    /\ LET last == constitution.history[Len(constitution.history)]
       IN  /\ last.old_text # OriginText
           /\ last.old_text # last.new_text
           /\ last.new_text = query(constitution)

\* The text after the first k entries of a version history, replayed from the
\* origin text
Replay(history, k) == IF k = 0 THEN OriginText ELSE history[k].new_text

\* C32: the version history is a connected chain: the first entry's old_text is the
\* origin text, each later entry's old_text is the previous entry's new_text, and
\* query() is the last entry's new_text (the origin text while the history is
\* empty); replaying the entries from the origin text gives every past version.
C32_HistoryIsChain ==
    LET h == constitution.history
    IN  /\ \A k \in 1..Len(h) : h[k].old_text = Replay(h, k - 1)
        /\ query(constitution) = Replay(h, Len(h))
        /\ \A k \in 1..Len(h) : h[k].updated_by = DesignatedRole

\* C32's case: three versions, the second replacing a text other than the origin
\* text and the third going back to the origin text, and a rejected update since.
C32_Witness ==
    LET h == constitution.history
    IN  /\ Len(h) = 3
        /\ h[1].new_text # OriginText
        /\ h[2].new_text # h[1].new_text
        /\ h[3].new_text = OriginText
        /\ result.status = "PermissionError"

(***************************************************************************)
(* Properties of the round orchestration.                                  *)
(***************************************************************************)
\* The positions inside run_contest_round.
RoundPositions ==
    {"solicit", "extract", "reward", "pe_reward", "feedback", "constitution_check",
     "advance"}

InRound == pc \in RoundPositions \/ pc = "hung"

\* The steps a running round can take once developer.query has answered.
RoundStep ==
    \/ SolicitRaises
    \/ \E t \in ResponseTimes : SolicitReturns("text", t)
    \/ SolicitReturns("nontext", SlowResponse)
    \/ \E o \in Outcomes : ExtractAndExecute(o)
    \/ \E g \in RewardReplies : RewardSubmission(g)
    \/ RewardEvaluator
    \/ \E raises \in BOOLEAN : SendFeedback(raises)
    \/ \E t \in ConstitutionReplies, raises \in BOOLEAN : CheckConstitution(t, raises)
    \/ Advance

\* The contest after its last round.
Ended ==
    /\ ~state.is_active
    /\ Len(problems) > 0
    /\ state.current_problem_index = Len(problems)

\* The transactions posted and the feedback handed out since the latest round began.
RoundLedger ==
    SubSeq(bank.transaction_history, mark.ledger + 1, Len(bank.transaction_history))
RoundFeedback == SubSeq(feedback, mark.feedback + 1, Len(feedback))

\* The developers of the running round: all, those already asked, those that answered.
Registered == {developers[k] : k \in 1..Len(developers)}
Solicited ==
    IF pc \in {"solicit", "hung"} THEN {developers[k] : k \in 1..(cursor - 1)}
    ELSE Registered
Responders == {all_submissions[k].name : k \in 1..Len(all_submissions)}

\* How many transactions of the running round are name's, and how many of them are
\* its reward for problem_id.
RoundTransactions(name) ==
    Cardinality({k \in 1..Len(RoundLedger) : RoundLedger[k].actor = name})
RoundRewards(name, problem_id) ==
    Cardinality({k \in 1..Len(RoundLedger) :
                    /\ RoundLedger[k].actor = name
                    /\ RoundLedger[k].reason = SubmissionReason(problem_id)})
RoundFeedbacks(name) ==
    Cardinality({k \in 1..Len(RoundFeedback) : RoundFeedback[k].name = name})

\* C3: current_problem_index never decreases and grows by exactly 1 per completed
\* round; after problem_count rounds the contest is Ended, and from then on no call
\* runs another round, posts a reward or lowers the index.
C3_AdvancementMonotonicAndTerminal ==
    [][/\ state'.current_problem_index >= state.current_problem_index
       /\ state'.current_problem_index # state.current_problem_index => pc = "advance"
       /\ pc = "advance" =>
            /\ state'.current_problem_index = state.current_problem_index + 1
            /\ state'.current_problem_index = Len(problems) => Ended'
       /\ Ended =>
            /\ Ended'
            /\ pc' \notin RoundPositions
            /\ \A k \in 1..Len(bank'.transaction_history) :
                  k > Len(bank.transaction_history)
                    => bank'.transaction_history[k].reason = <<"Initial registration">>
    ]_vars

\* C6: a developer whose query raises is a non-submission of the round: the raise
\* records nothing and posts nothing, the next developer is solicited (after the last,
\* the evaluation begins), the developer never gets an outcome, a reward or feedback,
\* and the round that completes rewards every developer that answered, gives it its
\* feedback and advances the problem index by one.
C6_SolicitationFailureConfined ==
    [][/\ pc = "solicit" =>
            /\ pc' \in {"solicit", "extract", "pe_reward", "hung"}
            /\ bank' = bank /\ feedback' = feedback /\ submissions' = submissions
            /\ (pc' # "hung" /\ all_submissions' = all_submissions) =>
                  /\ cursor < Len(developers) => (pc' = "solicit" /\ cursor' = cursor + 1)
                  /\ cursor = Len(developers) => pc' \in {"extract", "pe_reward"}
       /\ InRound =>
            \A d \in Solicited \ Responders :
                /\ \A k \in 1..Len(execution_results) : execution_results[k].name # d
                /\ ResultIndex(results, d) = 0
                /\ RoundTransactions(d) = 0
                /\ RoundFeedbacks(d) = 0
       /\ pc = "advance" =>
            /\ state'.current_problem_index = state.current_problem_index + 1
            /\ \A d \in Responders :
                /\ \E k \in 1..Len(execution_results) : execution_results[k].name = d
                /\ RoundRewards(d, CurrentProblem.id) = 1
                /\ RoundFeedbacks(d) = 1
    ]_vars

\* C6's case: a round of two developers has completed and advanced the index; one of
\* them raised (no transaction, no feedback), the other got its reward and feedback.
C6_Witness ==
    /\ pc = "idle"
    /\ result = EngineCall("run_contest_round", "ok")
    /\ state.current_problem_index = 1
    /\ Len(developers) = 2
    /\ \E d \in Registered, e \in Registered :
         /\ d # e
         /\ RoundTransactions(d) = 0 /\ RoundFeedbacks(d) = 0
         /\ RoundRewards(e, problems[1].id) = 1 /\ RoundFeedbacks(e) = 1

\* C7: a developer whose query exceeds the response budget (never returns) does not
\* stop the round: the running round can always take its next step.
C7_RoundSurvivesUnresponsiveAgent == InRound => ENABLED RoundStep

\* C8: a failure of extraction or execution for one submission becomes a failing
\* outcome of that developer: every submission gets its outcome and the round goes on.
C8_ExtractionFailureConfined ==
    [][pc = "extract" =>
         /\ pc' \in {"extract", "reward"}
         /\ Len(execution_results') = Len(execution_results) + 1
         /\ execution_results'[Len(execution_results')].name = all_submissions[cursor].name
    ]_vars

\* Whether the reward loop is past the submission of name.
Rewarded(name) ==
    \/ pc \in {"pe_reward", "feedback", "constitution_check", "advance"}
    \/ pc = "reward" /\ \E k \in 1..(cursor - 1) : all_submissions[k].name = name

FirstRoundScenario(a, b) ==
    /\ pc = "advance"
    /\ ~phi4_available
    /\ Registered = {a, b} /\ a # b
    /\ state.current_problem_index = 0
    /\ \A k \in 1..mark.ledger :
          bank.transaction_history[k].reason = <<"Initial registration">>
    /\ ResultIndex(results, a) # 0 /\ ResultIndex(results, b) # 0
    /\ LET ra == results[ResultIndex(results, a)]
           rb == results[ResultIndex(results, b)]
       IN  /\ ra.result = [success |-> TRUE, tests_passed |-> 3, total_tests |-> 3]
           /\ ra.response_time = FastResponse
           /\ rb.result = [success |-> FALSE, tests_passed |-> 0, total_tests |-> 3]

\* The names of the leaderboard, in its order
LeaderboardNames(b) ==
    LET board == get_leaderboard(b) IN [k \in 1..Len(board) |-> board[k].name]

FeedbackSent(name) ==
    \/ pc \in {"constitution_check", "advance"}
    \/ pc = "feedback" /\ \E k \in 1..(cursor - 1) : developers[k] = name

NamesOf(entries) == [k \in 1..Len(entries) |-> entries[k].name]

\* C27: in a round, no reward is computed and no reward transaction is posted before
\* the solicitation is over and extraction and execution have given an outcome for
\* every developer that responded.
C27_RewardsAfterAllOutcomes ==
    (/\ InRound
     /\ \/ Len(results) > 0
        \/ \E k \in 1..Len(RoundLedger) :
              RoundLedger[k].reason = SubmissionReason(CurrentProblem.id))
        => /\ pc \notin {"solicit", "hung", "extract"}
           /\ NamesOf(execution_results) = NamesOf(all_submissions)

\* C27's case: the first reward of a round with two responders has been posted,
\* the second has not.
C27_Witness ==
    /\ pc = "reward"
    /\ cursor = 2
    /\ Len(all_submissions) = 2
    /\ Len(execution_results) = 2
    /\ Len(results) = 1
    /\ RoundRewards(all_submissions[1].name, CurrentProblem.id) = 1
    /\ RoundRewards(all_submissions[2].name, CurrentProblem.id) = 0

\* How many transactions of the ledger pay name for its submission to problem_id,
\* and how many pay the evaluator for evaluating problem_id.
LedgerRewards(name, problem_id) ==
    Cardinality({k \in 1..Len(bank.transaction_history) :
                    /\ bank.transaction_history[k].actor = name
                    /\ bank.transaction_history[k].reason = SubmissionReason(problem_id)})
LedgerEvaluations(problem_id) ==
    Cardinality({k \in 1..Len(bank.transaction_history) :
                    bank.transaction_history[k].reason = EvaluationReason(problem_id)})

\* Whether the rewards computed so far in the running round saw one ruleset text.
OneTextForRewards ==
    \A j, k \in 1..Len(results) : results[j].constitution = results[k].constitution

C12_StartWhileActiveRejected ==
    [][(pc = "idle" /\ state.is_active /\ result'.op = "start_contest") =>
          /\ result'.status = "Exception"
          /\ state' = state
    ]_vars

\* C12's case: start_contest has just been refused on a contest that is active and
\* past its first round; the state still holds the index and the start timestamp.
C12_Witness ==
    /\ result = EngineCall("start_contest", "Exception")
    /\ state.is_active
    /\ state.current_problem_index = 1
    /\ state.start_time # 0

\* C13: a contest is active only with at least one problem loaded and at least one
\* developer registered (start_contest fails otherwise and the contest stays idle).
C13_ActiveNeedsProblemAndAgent ==
    state.is_active => (Len(problems) >= 1 /\ Len(developers) >= 1)

\* C14: once the contest has been started register_developer adds no developer: the
\* developers and the participants stay what they were at the start.
C14_NoLateRegistration ==
    [][state.start_time # 0 =>
          /\ developers' = developers
          /\ state'.participants = state.participants
    ]_vars

\* How often name is among the participants, and how many registration
\* transactions the ledger holds for it.
ParticipantCount(name) ==
    Cardinality({k \in 1..Len(state.participants) : state.participants[k] = name})
Registrations(name) ==
    {k \in 1..Len(bank.transaction_history) :
        /\ bank.transaction_history[k].actor = name
        /\ bank.transaction_history[k].reason = <<"Initial registration">>}

\* C15: every registered developer is among the participants exactly once and has
\* exactly one registration transaction, of amount 0 and resulting balance 0.
C15_OneRegistrationPerAgent ==
    \A d \in Registered :
        /\ ParticipantCount(d) = 1
        /\ Cardinality(Registrations(d)) = 1
        /\ \A k \in Registrations(d) :
              /\ bank.transaction_history[k].delta = 0
              /\ bank.transaction_history[k].new_balance = 0

C28_ConcurrentStepsSerialised ==
    /\ \A k \in 1..Len(problems) :
          /\ LedgerEvaluations(problems[k].id) <= 1
          /\ \A name \in Developers : LedgerRewards(name, problems[k].id) <= 1
    /\ state.current_problem_index <= Len(problems)
    /\ \A k \in 1..Len(problems) :
          k <= state.current_problem_index => LedgerEvaluations(problems[k].id) >= 1

\* C29: whatever the engine is asked to do, the ledger holds at most one reward
\* transaction for a developer and a problem: no round is run again for a problem,
\* not after a round that an exception ended once its rewards were posted, and not
\* after the contest has ended.
C29_OneRewardPerAgentAndProblem ==
    \A k \in 1..Len(problems), name \in Developers :
        LedgerRewards(name, problems[k].id) <= 1

\* C31: the release timestamp of a problem goes from unset to set once, in the step
\* that begins its round, and no later step of the engine assigns it again.
C31_ReleasedOnce ==
    [][\A k \in 1..Len(problems) :
          /\ problems'[k].released_at # problems[k].released_at =>
                /\ problems[k].released_at = 0
                /\ problems'[k].released_at # 0
                /\ pc \in {"idle", "loop"} /\ pc' \in RoundPositions
                /\ current_problem' = k
          /\ problems'[k].id = problems[k].id
    ]_vars

\* C34: the current_problem_index that get_contest_status reports is the number of
\* rounds that ran to completion since the contest was started: it is 0 until the
\* first start and after every accepted start, the step that completes a round
\* adds 1, and no other step changes it; a round that an exception ends leaves it
\* as it was.
C34_IndexCountsCompletedRounds ==
    [][LET before == get_contest_status(state, problems).current_problem_index
           after == get_contest_status(state', problems').current_problem_index
       IN  /\ state.start_time = 0 => before = 0
           /\ IF pc = "advance" THEN after = before + 1
              ELSE IF state'.is_active /\ ~state.is_active THEN after = 0
              ELSE after = before
           /\ (InRound /\ pc' = "idle" /\ result'.status \notin {"ok"}) =>
                 /\ pc # "advance"
                 /\ after = before
    ]_vars

\* C34's case: after one completed round the round of the second problem has posted
\* its rewards and was then ended by an exception; the index reported is still 1.
C34_Witness ==
    /\ pc = "idle"
    /\ result = EngineCall("run_contest_round", "Exception")
    /\ get_contest_status(state, problems).current_problem_index = 1
    /\ Len(problems) = 2
    /\ LedgerEvaluations(problems[1].id) = 1
    /\ LedgerEvaluations(problems[2].id) = 1

\* C37: between engine operations (no caller is inside one) the problem index is
\* from 0 to the number of problems, an active contest has its index below that
\* number, and get_current_problem gives no problem exactly when the contest is not
\* active.
C37_IndexWithinProblems ==
    (pc = "idle" /\ other.pc = "idle") =>
        /\ 0 <= state.current_problem_index
        /\ state.current_problem_index <= Len(problems)
        /\ state.is_active => state.current_problem_index < Len(problems)
        /\ get_current_problem(state, problems) = 0 <=> ~state.is_active

\* C39: run_full_contest, with developers whose query and update return or raise
\* and whose responses are text, is left only by its normal return, with the
\* contest Ended, every problem evaluated in exactly one round, and the problems
\* released in the order of their ids.
C39_FullContestRunsEveryProblem ==
    [][(/\ driver = "full"
        /\ pc # "hung"
        /\ pc' = "idle"
        /\ \A k \in 1..Len(all_submissions) : ~ExtractRaises(all_submissions[k].full_response))
          => /\ result' = EngineCall("run_full_contest", "ok")
             /\ Ended'
             /\ \A k \in 1..Len(problems) :
                   Cardinality({t \in 1..Len(bank'.transaction_history) :
                                   bank'.transaction_history[t].reason
                                     = EvaluationReason(problems[k].id)}) = 1
             /\ \A k \in 1..(Len(problems) - 1) :
                   /\ problems'[k].released_at # 0
                   /\ problems'[k].released_at < problems'[k + 1].released_at
    ]_vars

(***************************************************************************)
(* Properties of the events.                                               *)
(***************************************************************************)
\* The events of one type seen so far, in order
EventsOfType(event_type) == SelectSeq(events.seen, LAMBDA e : e.type = event_type)

\* The events seen since the latest round_started, that one included
RoundEvents ==
    LET seen == events.seen
        started == {k \in 1..Len(seen) : seen[k].type = "round_started"}
    IN  IF started = {} THEN <<>>
        ELSE SubSeq(seen, CHOOSE k \in started : \A j \in started : j <= k, Len(seen))

\* C35: the winner a contest_ended event reports is a registered developer, the
\* one with the highest balance at the end and the first registered among those
\* with that balance; no other actor is reported as winner.
C35_WinnerIsRegistered ==
    \A k \in 1..Len(events.seen) :
        events.seen[k].type = "contest_ended" =>
            /\ events.seen[k].about \in Registered
            /\ k = Len(events.seen) =>
                  \E i \in 1..Len(developers) :
                      /\ events.seen[k].about = developers[i]
                      /\ \A j \in 1..Len(developers) :
                            /\ get_balance(bank, developers[j])
                                  <= get_balance(bank, developers[i])
                            /\ j < i => get_balance(bank, developers[j])
                                           < get_balance(bank, developers[i])

\* What holds of _emit_event whatever the callbacks do: no exception leaves it,
\* every callback was called with every event emitted, in order, and every
\* exception of a callback was logged.
EmissionConfined ==
    /\ ~events.escaped
    /\ \A k \in 1..events.callbacks : events.received[k] = events.seen
    /\ events.logged = Len(events.seen) * Cardinality(events.raising)

\* C38: an exception that a callback raises during an emission does not leave
\* _emit_event: the other callbacks are still called with the event, and the
\* operation that emits goes on as with callbacks that return: the registration
\* leaves the developer registered, the start leaves the contest active, the round
\* that has started goes on to its solicitation or evaluation, the round that has
\* completed goes on to advance the index, and the contest that has ended is not
\* active and its last round has returned normally.
C38_CallbackFailureConfined ==
    [][/\ EmissionConfined'
       /\ Len(events'.seen) # Len(events.seen) =>
             /\ Len(events'.seen) = Len(events.seen) + 1
             /\ LET event == events'.seen[Len(events'.seen)]
                IN  /\ event.type = "developer_registered" =>
                          /\ result' = EngineCall("register_developer", "ok")
                          /\ HasKey(developers', event.about)
                          /\ Len(state'.participants) = Len(state.participants) + 1
                          /\ Len(bank'.transaction_history)
                                = Len(bank.transaction_history) + 1
                    /\ event.type = "contest_started" =>
                          /\ result'.status \in {"ok", "running"}
                          /\ state'.is_active /\ state'.current_problem_index = 0
                    /\ event.type = "round_started" =>
                          /\ pc' \in {"solicit", "pe_reward"}
                          /\ result'.status = "running"
                          /\ problems'[current_problem'].released_at = clock'
                    /\ event.type = "round_completed" =>
                          /\ pc = "constitution_check" /\ pc' = "advance"
                    /\ event.type = "contest_ended" =>
                          /\ pc = "advance"
                          /\ ~state'.is_active
                          /\ state'.current_problem_index
                                = state.current_problem_index + 1
                          /\ result' = EngineCall("run_contest_round", "ok")
    ]_vars

\* C38's case: of two callbacks the first raises on every call; a whole contest
\* has run, and the second callback has received all of its events.
C38_Witness ==
    /\ events.callbacks = 2
    /\ events.raising = {1}
    /\ Len(events.seen) >= 5
    /\ events.seen[Len(events.seen)].type = "contest_ended"
    /\ events.received[2] = events.seen
    /\ events.logged = Len(events.seen)
    /\ pc = "idle"

\* C24: one event is emitted per milestone, in order: one developer_registered per
\* registration; for a round, one round_started, then one submission_received for
\* each submission the round collected, then one round_completed; and contest_ended
\* right after the round_completed of the last round.
C24_OneEventPerMilestone ==
    /\ EventsOfType("developer_registered") =
           [k \in 1..Len(state.participants) |->
               [type |-> "developer_registered", about |-> state.participants[k]]]
    /\ pc = "advance" =>
           RoundEvents =
               <<[type |-> "round_started", about |-> CurrentProblem.id]>>
               \o [k \in 1..Len(all_submissions) |->
                      [type |-> "submission_received", about |-> all_submissions[k].name]]
               \o <<[type |-> "round_completed", about |-> CurrentProblem.id]>>
    /\ (result = EngineCall("run_contest_round", "ok") /\ pc = "idle" /\ Ended) =>
           LET seen == events.seen
           IN  /\ Len(seen) >= 2
               /\ seen[Len(seen)].type = "contest_ended"
               /\ seen[Len(seen) - 1].type = "round_completed"

(***************************************************************************)
(* CodeSandbox._parse_test_output (src/backend/sandbox.py).  An output is  *)
(* a sequence of lines; a line is what the method reads of it: the words   *)
(* it tests with "in", and the number each pattern finds, <<>> for no      *)
(* match and <<n>> for n.                                                  *)
(***************************************************************************)
\* Longest output given to the parser, in lines.
MaxOutputLines == 2

\* The numbers a pattern finds.
Counts == {<<>>, <<0>>, <<2>>}

\* The lines: a pattern (\d+) passed only matches where the word passed is, and
\* "passed in" holds the word passed.
OutputLines ==
    {l \in [passed : Counts, failed : Counts, error : {<<>>, <<1>>},
            word_passed : BOOLEAN, word_failed : BOOLEAN, passed_in : BOOLEAN] :
        /\ l.passed # <<>> => l.word_passed
        /\ l.failed # <<>> => l.word_failed
        /\ l.passed_in => l.word_passed}

Outputs == UNION {[1..n -> OutputLines] : n \in 0..MaxOutputLines}

\* int(match.group(1)) if match, else the initial 0
CountOf(match) == IF match = <<>> THEN 0 ELSE match[1]

\* The two branches of the loop over the lines
MixedSummary(l) == l.word_passed /\ l.word_failed
PassedSummary(l) == l.passed_in /\ ~l.word_failed

\* The line at which the loop breaks, 0 when it runs to the end
SummaryLine(output) ==
    IF \E k \in 1..Len(output) : MixedSummary(output[k]) \/ PassedSummary(output[k])
    THEN CHOOSE k \in 1..Len(output) :
            /\ MixedSummary(output[k]) \/ PassedSummary(output[k])
            /\ \A j \in 1..(k - 1) :
                  ~(MixedSummary(output[j]) \/ PassedSummary(output[j]))
    ELSE 0

\* A mutant of parse_test_output: an output without counts is taken as one passed test.
parse_test_output_fail_open(output) ==
    LET k == SummaryLine(output)
        passed == IF k = 0 THEN 0 ELSE CountOf(output[k].passed)
        failed == IF k = 0 \/ ~MixedSummary(output[k]) THEN 0
                  ELSE CountOf(output[k].failed)
        errors == IF k = 0 \/ ~MixedSummary(output[k]) THEN 0
                  ELSE CountOf(output[k].error)
    IN  IF passed + failed + errors = 0
        THEN [passed |-> 1, total |-> 1]
        ELSE [passed |-> passed, total |-> passed + failed + errors]

\* CodeSandbox._parse_test_output
parse_test_output(output) ==
    LET k == SummaryLine(output)
        passed == IF k = 0 THEN 0 ELSE CountOf(output[k].passed)
        failed == IF k = 0 \/ ~MixedSummary(output[k]) THEN 0
                  ELSE CountOf(output[k].failed)
        errors == IF k = 0 \/ ~MixedSummary(output[k]) THEN 0
                  ELSE CountOf(output[k].error)
    IN  IF passed + failed + errors = 0
        THEN [passed |-> 0, total |-> 1]
        ELSE [passed |-> passed, total |-> passed + failed + errors]

\* A call of _parse_test_output on the output in hand.
ParseTestOutput ==
    /\ probe.op = "output"
    /\ probe' = [op |-> "parse_test_output", input |-> probe.input,
                 value |-> parse_test_output(probe.input)]
    /\ UNCHANGED <<bank, constitution, result, engineVars, frameVars, sandbox>>
    /\ UNCHANGED other

InitParse ==
    /\ InitEngine(0, FALSE)
    /\ sandbox = NoSandbox
    /\ other = NoOther
    /\ \E output \in Outputs : probe = [op |-> "output", input |-> output]

SpecParse == InitParse /\ [][ParseTestOutput]_vars

\* Whether some pattern finds a number in the line.
HoldsCount(l) == l.passed # <<>> \/ l.failed # <<>> \/ l.error # <<>>

\* C19: for every output the parser returns (passed, total) with total >= 1 and
\* 0 <= passed <= total, and exactly (0, 1) when no line of the output holds a count
\* of passed, failed or errored tests.
C19_TestCountsFailClosed ==
    probe.op = "parse_test_output" =>
        /\ probe.value.total >= 1
        /\ 0 <= probe.value.passed
        /\ probe.value.passed <= probe.value.total
        /\ (\A k \in 1..Len(probe.input) : ~HoldsCount(probe.input[k]))
              => probe.value = [passed |-> 0, total |-> 1]

\* C19's case: an output whose lines speak of passed tests but hold no count has
\* been parsed to (0, 1).
C19_Witness ==
    /\ probe.op = "parse_test_output"
    /\ Len(probe.input) = 2
    /\ \A k \in 1..2 : probe.input[k].passed_in /\ ~HoldsCount(probe.input[k])
    /\ probe.value = [passed |-> 0, total |-> 1]

(***************************************************************************)
(* CodeSandbox.execute_code and _run_with_limits (src/backend/sandbox.py). *)
(* Time is counted in ticks from the launch of the child, memory in MB.    *)
(***************************************************************************)
\* Most iterations of the polling loop in one run.
MaxPolls == 3

\* timeout_s and mem_limit_mb of a run, the time between two polls, what
\* psutil reads at a poll (<<>> for NoSuchProcess), the exit codes of a child.
Timeouts == {1, 2}
MemLimits == {2, 3}
PollGaps == {1, 2}
MemoryReadings == {<<>>, <<1>>, <<3>>, <<4>>}
ReturnCodes == {0, 1}

\* Outputs of a child: nothing, "2 passed in ..", "2 failed, 2 passed in ..".
SampleOutputs ==
    {<<>>,
     <<[passed |-> <<2>>, failed |-> <<>>, error |-> <<>>, word_passed |-> TRUE,
        word_failed |-> FALSE, passed_in |-> TRUE]>>,
     <<[passed |-> <<2>>, failed |-> <<2>>, error |-> <<>>, word_passed |-> TRUE,
        word_failed |-> TRUE, passed_in |-> TRUE]>>}

\* CodeSandbox.__init__: tempfile.mkdtemp()
FreshSandbox ==
    [pc |-> "ready", temp_dir |-> TRUE, timeout_s |-> 0, mem_limit_mb |-> 0,
     elapsed |-> 0, polls |-> 0, max_memory |-> 0, observed |-> <<>>, signal |-> "",
     path |-> "", outcome |-> <<>>]

\* A mutant of cleanup: the files are removed, the directory is left.
cleanup_files_only(sb) == sb

\* CodeSandbox._cleanup: shutil.rmtree(self.temp_dir, ignore_errors=True)
cleanup(sb) == [sb EXCEPT !.temp_dir = FALSE]

\* The SubmissionResult execute_code builds from what _run_with_limits returned.
submission_result(ret) ==
    LET counts == parse_test_output(ret.output)
    IN  [success |-> ret.returncode = 0, error |-> ret.error,
         memory_used |-> ret.memory_used, tests_passed |-> counts.passed,
         total_tests |-> counts.total]

\* The SubmissionResult of the except clause of execute_code.
exception_result(error) ==
    [success |-> FALSE, error |-> error, memory_used |-> 0, tests_passed |-> 0,
     total_tests |-> 1]

\* execute_code returns outcome by the exit path named; finally: self._cleanup().
Return(sb, path, outcome) ==
    cleanup([sb EXCEPT !.pc = "done", !.path = path, !.outcome = <<outcome>>])

\* The error texts of the two kills.
TimeoutError(timeout_s) == <<"Timeout after", timeout_s, "seconds">>
MemoryError(memory_mb, mem_limit_mb) ==
    <<"Memory limit exceeded", memory_mb, mem_limit_mb>>

\* A mutant of track_memory: the last reading replaces the maximum.
track_memory_last(max_memory, memory_mb) == memory_mb

\* max_memory = max(max_memory, memory_mb)
track_memory(max_memory, memory_mb) ==
    IF memory_mb > max_memory THEN memory_mb ELSE max_memory

\* sandbox = CodeSandbox()
NewSandbox ==
    /\ sandbox.pc \in {"none", "done"}
    /\ sandbox' = FreshSandbox
    /\ UNCHANGED <<bank, constitution, result, engineVars, frameVars, probe>>
    /\ UNCHANGED other

\* execute_code up to the polling loop.  Without the directory the files cannot be
\* written (except clause); Popen may fail (except clause of _run_with_limits).
ExecuteCode(timeout_s, mem_limit_mb, launches) ==
    /\ sandbox.pc \in {"ready", "done"}
    /\ LET sb == [FreshSandbox EXCEPT !.temp_dir = sandbox.temp_dir,
                                      !.timeout_s = timeout_s,
                                      !.mem_limit_mb = mem_limit_mb]
       IN  sandbox' =
             IF ~sb.temp_dir
             THEN Return(sb, "exception", exception_result("FileNotFoundError"))
             ELSE IF ~launches
             THEN Return(sb, "launch",
                         submission_result([returncode |-> -1, output |-> <<>>,
                                            error |-> "OSError", memory_used |-> 0]))
             ELSE [sb EXCEPT !.pc = "poll"]
    /\ UNCHANGED <<bank, constitution, result, engineVars, frameVars, probe>>
    /\ UNCHANGED other

\* The loop test finds the child exited: on to process.communicate().
PollExited ==
    /\ sandbox.pc = "poll"
    /\ sandbox' = [sandbox EXCEPT !.pc = "communicate", !.path = "normal"]
    /\ UNCHANGED <<bank, constitution, result, engineVars, frameVars, probe>>
    /\ UNCHANGED other

\* One iteration of the loop with the child running: gap ticks after the previous
\* one, psutil reading `reading`.
PollRunning(gap, reading) ==
    /\ sandbox.pc = "poll"
    /\ sandbox.polls < MaxPolls
    /\ LET sb == [sandbox EXCEPT !.elapsed = @ + gap, !.polls = @ + 1]
       IN  sandbox' =
             IF sb.elapsed > sb.timeout_s
             THEN [sb EXCEPT !.pc = "wait", !.signal = "SIGTERM", !.path = "timeout"]
             ELSE IF reading = <<>>
             THEN [sb EXCEPT !.pc = "communicate", !.path = "vanished"]
             ELSE LET seen == [sb EXCEPT !.max_memory = track_memory(@, reading[1]),
                                         !.observed = Append(@, reading[1])]
                  IN  IF reading[1] > sb.mem_limit_mb
                      THEN [seen EXCEPT !.pc = "wait", !.signal = "SIGTERM",
                                        !.path = "memory"]
                      ELSE seen
    /\ UNCHANGED <<bank, constitution, result, engineVars, frameVars, probe>>
    /\ UNCHANGED other

\* process.wait() after os.killpg returns: the child has exited.
WaitReturns ==
    /\ sandbox.pc = "wait"
    /\ LET error == IF sandbox.path = "timeout" THEN TimeoutError(sandbox.timeout_s)
                    ELSE MemoryError(sandbox.observed[Len(sandbox.observed)],
                                     sandbox.mem_limit_mb)
       IN  sandbox' = Return(sandbox, sandbox.path,
                        submission_result([returncode |-> -1, output |-> <<>>,
                                           error |-> error,
                                           memory_used |-> sandbox.max_memory]))
    /\ UNCHANGED <<bank, constitution, result, engineVars, frameVars, probe>>
    /\ UNCHANGED other

\* process.wait() never returns: the child ignores SIGTERM.
WaitBlocks ==
    /\ sandbox.pc = "wait"
    /\ sandbox' = [sandbox EXCEPT !.pc = "blocked"]
    /\ UNCHANGED <<bank, constitution, result, engineVars, frameVars, probe>>
    /\ UNCHANGED other

\* process.communicate() and the normal return of _run_with_limits.
Communicate(returncode, output) ==
    /\ sandbox.pc = "communicate"
    /\ sandbox' = Return(sandbox, sandbox.path,
                     submission_result([returncode |-> returncode, output |-> output,
                                        error |-> "stderr",
                                        memory_used |-> sandbox.max_memory]))
    /\ UNCHANGED <<bank, constitution, result, engineVars, frameVars, probe>>
    /\ UNCHANGED other

NextSandbox ==
    \/ NewSandbox
    \/ \E t \in Timeouts, m \in MemLimits, launches \in BOOLEAN : ExecuteCode(t, m, launches)
    \/ PollExited
    \/ \E gap \in PollGaps, reading \in MemoryReadings : PollRunning(gap, reading)
    \/ WaitReturns
    \/ WaitBlocks
    \/ \E rc \in ReturnCodes, output \in SampleOutputs : Communicate(rc, output)

SpecSandbox == InitStores /\ [][NextSandbox]_vars

\* The highest of the readings, 0 when there is none
Highest(readings) ==
    IF Len(readings) = 0 THEN 0
    ELSE CHOOSE m \in {readings[k] : k \in 1..Len(readings)} :
            \A k \in 1..Len(readings) : readings[k] <= m

\* Whether a run of execute_code is under way or over.
Launched == sandbox.pc \in {"poll", "communicate", "wait", "blocked", "done"}

\* C17: the polling loop goes on only while no poll has found the elapsed time above
\* timeout_s or the memory above mem_limit_mb; the poll that finds one signals the
\* process group and ends the loop; the outcome of a kill has success false, the
\* timeout or memory-limit error text, the highest memory observed so far as
\* memory_used, and 0 of 1 tests.
C17_KilledAtFirstExceedingPoll ==
    Launched =>
        LET sb == sandbox
            within == \A k \in 1..Len(sb.observed) : sb.observed[k] <= sb.mem_limit_mb
            killed(error) ==
                sb.outcome = <<[success |-> FALSE, error |-> error,
                                memory_used |-> Highest(sb.observed),
                                tests_passed |-> 0, total_tests |-> 1]>>
        IN  /\ sb.pc \in {"poll", "communicate"} => (sb.elapsed <= sb.timeout_s /\ within)
            /\ sb.elapsed > sb.timeout_s =>
                  /\ sb.path = "timeout" /\ sb.signal = "SIGTERM"
                  /\ within
                  /\ sb.pc = "done" => killed(TimeoutError(sb.timeout_s))
            /\ (sb.elapsed <= sb.timeout_s /\ ~within) =>
                  /\ sb.path = "memory" /\ sb.signal = "SIGTERM"
                  /\ \A k \in 1..(Len(sb.observed) - 1) :
                        sb.observed[k] <= sb.mem_limit_mb
                  /\ sb.pc = "done" =>
                        killed(MemoryError(sb.observed[Len(sb.observed)],
                                           sb.mem_limit_mb))
            /\ sb.signal = "SIGTERM" => sb.path \in {"timeout", "memory"}

\* C17's case: a child that stayed within its limits for two polls, its memory
\* falling from the first to the second, was killed at the third for the timeout.
C17_Witness ==
    /\ sandbox.pc = "done"
    /\ sandbox.path = "timeout"
    /\ sandbox.polls = 3
    /\ sandbox.observed = <<3, 1>>
    /\ sandbox.outcome[1].memory_used = 3

\* The exit paths of execute_code.
ExitPaths == {"normal", "timeout", "memory", "launch", "vanished", "exception"}

\* C18: whenever execute_code has returned, by whichever exit path, it has returned
\* an outcome and the working directory is gone; no step of a run ends otherwise.
C18_OutcomeAndCleanupOnEveryPath ==
    /\ sandbox.pc = "done" =>
          /\ sandbox.path \in ExitPaths
          /\ Len(sandbox.outcome) = 1
          /\ sandbox.outcome[1].total_tests >= 1
          /\ ~sandbox.temp_dir
    /\ sandbox.pc \in {"poll", "communicate", "wait", "blocked"} =>
          (sandbox.outcome = <<>> /\ sandbox.temp_dir)

\* C18's case: a run in which the child vanished between two polls has returned.
C18_Witness ==
    /\ sandbox.pc = "done"
    /\ sandbox.path = "vanished"
    /\ sandbox.polls = 2
    /\ ~sandbox.temp_dir

(***************************************************************************)
(* ContestEngine._extract_function_code (src/backend/contest_engine.py).   *)
(* A response is a sequence of lines; a line is its text without the       *)
(* leading blanks, named by what the method tests of it, and its indent in *)
(* units of four blanks.  "def" is a line holding "def <function_name>",   *)
(* "gendef" the line "def <function_name>():" the method writes itself,    *)
(* "stmt" a statement such as "return 1", "note" any other text, "fence"   *)
(* three backquotes and "fence python" three backquotes and python.        *)
(***************************************************************************)
\* Longest response given to the extraction, in lines.
MaxResponseLines == 4

Line(text, indent) == [text |-> text, indent |-> indent]

\* The lines of the responses tried.
ResponseLines ==
    {Line("fence python", 0), Line("fence", 0), Line("def", 0), Line("stmt", 1),
     Line("stmt", 0), Line("note", 0), Line("", 0)}

Responses == UNION {[1..n -> ResponseLines] : n \in 0..MaxResponseLines}

\* f"def {function_name}" in line
HoldsDef(l) == l.text \in {"def", "gendef"}

\* Three backquotes, with or without the word python after them
IsFence(l) == l.text \in {"fence python", "fence"}

\* The test of the last resort on a stripped line: not empty, no trailing colon, no
\* leading #, and one of = return def if for in it.
CodeLike(l) == l.text = "stmt"

\* The positions of the first fence with python and of the first fence after it,
\* 0 if none
FenceOpen(lines) ==
    IF \E k \in 1..Len(lines) : lines[k].text = "fence python"
    THEN CHOOSE k \in 1..Len(lines) :
            /\ lines[k].text = "fence python"
            /\ \A j \in 1..(k - 1) : lines[j].text # "fence python"
    ELSE 0
FenceClose(lines) ==
    LET i == FenceOpen(lines)
    IN  IF i # 0 /\ \E k \in (i + 1)..Len(lines) : IsFence(lines[k])
        THEN CHOOSE k \in (i + 1)..Len(lines) :
                /\ IsFence(lines[k])
                /\ \A j \in (i + 1)..(k - 1) : ~IsFence(lines[j])
        ELSE 0

\* str.strip() of a block of lines: no blank line at either end, no leading blanks
\* on the first line
RECURSIVE Strip(_)
Strip(lines) ==
    IF Len(lines) = 0 THEN lines
    ELSE IF lines[1].text = "" THEN Strip(Tail(lines))
    ELSE IF lines[Len(lines)].text = "" THEN Strip(SubSeq(lines, 1, Len(lines) - 1))
    ELSE [lines EXCEPT ![1].indent = 0]

\* code_block_match.group(1).strip(), <<>> without a match
FencedContent(lines) ==
    IF FenceClose(lines) = 0 THEN <<>>
    ELSE Strip(SubSeq(lines, FenceOpen(lines) + 1, FenceClose(lines) - 1))

\* The scan for the function definition: function_lines after the lines given
RECURSIVE FunctionLines(_, _, _)
FunctionLines(lines, in_function, function_lines) ==
    IF Len(lines) = 0 THEN function_lines
    ELSE LET l == lines[1]
         IN  IF HoldsDef(l)
             THEN FunctionLines(Tail(lines), TRUE, Append(function_lines, l))
             ELSE IF in_function
             THEN IF l.text # "" /\ l.indent = 0
                  THEN function_lines
                  ELSE FunctionLines(Tail(lines), TRUE, Append(function_lines, l))
             ELSE FunctionLines(Tail(lines), FALSE, function_lines)

\* The code-like lines, stripped
CodeLines(lines) == SelectSeq(lines, CodeLike)

\* The code-like lines wrapped in a function: the template indents the first by
\* eight blanks and the others by four.
Wrapped(code_lines) ==
    <<Line("gendef", 0)>> \o
    [k \in 1..Len(code_lines) |-> Line(code_lines[k].text, IF k = 1 THEN 2 ELSE 1)]

\* ContestEngine._extract_function_code
extract_function_code(full_response) ==
    LET content == FencedContent(full_response)
        function_lines == FunctionLines(full_response, FALSE, <<>>)
        code_lines == CodeLines(full_response)
    IN  IF \E k \in 1..Len(content) : HoldsDef(content[k]) THEN content
        ELSE IF Len(function_lines) > 0 THEN function_lines
        ELSE IF Len(code_lines) > 0 THEN Wrapped(code_lines)
        ELSE <<Line("gendef", 0), Line("pass", 1)>>

\* A call of _extract_function_code on the response in hand.
ExtractFunctionCode ==
    /\ probe.op = "response"
    /\ probe' = [op |-> "extract_function_code", input |-> probe.input,
                 value |-> extract_function_code(probe.input)]
    /\ UNCHANGED <<bank, constitution, result, engineVars, frameVars, sandbox>>
    /\ UNCHANGED other

InitExtract ==
    /\ InitEngine(0, FALSE)
    /\ sandbox = NoSandbox
    /\ other = NoOther
    /\ \E response \in Responses : probe = [op |-> "response", input |-> response]

SpecExtract == InitExtract /\ [][ExtractFunctionCode]_vars

\* C20: extracting from what an extraction returned gives the same text again.
C20_ExtractionIdempotent ==
    probe.op = "extract_function_code" =>
        extract_function_code(probe.value) = probe.value

(***************************************************************************)
(* PrincipleEvaluator._fallback_reward_calculation on its own              *)
(* (src/backend/models.py).                                                *)
(***************************************************************************)
\* Longest response time tried, in tenths of a second.
MaxResponseTenths == 30

\* The results CodeSandbox.execute_code can hand over: tests_passed of total_tests
\* as _parse_test_output counts them, with either return code.
SubmissionResults ==
    {r \in [success : BOOLEAN, tests_passed : 0..3, total_tests : {0, 1, 3}] :
        r.tests_passed <= r.total_tests}

\* A call of _fallback_reward_calculation on the result and response time in hand.
FallbackRewardCalculation ==
    /\ probe.op = "result"
    /\ probe' = [op |-> "fallback_reward_calculation", input |-> probe.input,
                 value |-> fallback_reward_calculation(probe.input.result,
                                                       probe.input.response_time)]
    /\ UNCHANGED <<bank, constitution, result, engineVars, frameVars, sandbox>>
    /\ UNCHANGED other

InitReward ==
    /\ InitEngine(0, FALSE)
    /\ sandbox = NoSandbox
    /\ other = NoOther
    /\ \E r \in SubmissionResults, t \in 0..MaxResponseTenths :
          probe = [op |-> "result", input |-> [result |-> r, response_time |-> t]]

SpecReward == InitReward /\ [][FallbackRewardCalculation]_vars

\* The whole dollars of 5 per second over a time in tenths of a second, the
\* fraction dropped
LatencyPenalty(response_time) ==
    CHOOSE p \in 0..(LatencyRate * response_time) :
        /\ p * TenthsPerSecond <= LatencyRate * response_time
        /\ LatencyRate * response_time < (p + 1) * TenthsPerSecond

\* C25: the rule-based reward is +1000 for a successful run that passes all of its
\* tests and -500 for a failing one (an unsuccessful run, or a successful run that
\* passes fewer tests than there are, 2 of 3 included), less 5 per second of response
\* time cut to a whole number.
C25_RuleBasedReward ==
    probe.op = "fallback_reward_calculation" =>
        LET r == probe.input.result
            penalty == LatencyPenalty(probe.input.response_time)
        IN  /\ (r.success /\ r.tests_passed = r.total_tests) =>
                  probe.value = 1000 - penalty
            /\ (~r.success \/ r.tests_passed < r.total_tests) =>
                  probe.value = -500 - penalty

\* C25's case: 2 of 3 tests passed after 1.5 seconds gives -507.
C25_Witness ==
    /\ probe.op = "fallback_reward_calculation"
    /\ probe.input.result = [success |-> TRUE, tests_passed |-> 2, total_tests |-> 3]
    /\ probe.input.response_time = 15
    /\ probe.value = -507

(***************************************************************************)
(* The two reward paths of the PrincipleEvaluator on one submission:       *)
(* evaluate_submissions_simple, which the round calls, and                 *)
(* evaluate_submissions (src/backend/models.py).                           *)
(***************************************************************************)
\* Readings of time.time() when evaluate_submissions starts an execution, in tenths
\* of a second since the epoch: later than any response time tried.
SubmissionTimes == {40, 70}

\* PrincipleEvaluator._calculate_reward_with_all_context: the rule-based reward is
\* computed from execution_results[name]['submission_time'].
calculate_reward_with_all_context(available, generated, r, submission_time) ==
    IF ~available \/ Len(generated) = 0
    THEN fallback_reward_calculation(r, submission_time)
    ELSE extract_reward_from_response(generated[1])

\* Both paths on the submission in hand: the reward each posts for the developer.
EvaluateSubmissions ==
    /\ probe.op = "submission"
    /\ LET given == probe.input
       IN  probe' =
              [op |-> "evaluate_submissions", input |-> given,
               simple |-> calculate_individual_reward(given.available, given.generated,
                                                      given.result, given.response_time),
               all_context |-> calculate_reward_with_all_context(
                                  given.available, given.generated, given.result,
                                  given.submission_time)]
    /\ UNCHANGED <<bank, constitution, result, engineVars, frameVars, sandbox>>
    /\ UNCHANGED other

InitPaths ==
    /\ InitEngine(0, FALSE)
    /\ sandbox = NoSandbox
    /\ other = NoOther
    /\ \E r \in SubmissionResults, t \in ResponseTimes, now \in SubmissionTimes,
          available \in BOOLEAN, g \in RewardReplies :
          probe = [op |-> "submission",
                   input |-> [result |-> r, response_time |-> t, submission_time |-> now,
                              available |-> available, generated |-> g]]

SpecPaths == InitPaths /\ [][EvaluateSubmissions]_vars

\* C33: for the same execution outcome and the same response latency of the
\* developer, the rule-based reward of evaluate_submissions and of
\* evaluate_submissions_simple is the same, and in both it is the response latency
\* that is penalised, not a clock reading.
C33_SameLatencyInBothPaths ==
    (/\ probe.op = "evaluate_submissions"
     /\ ~probe.input.available \/ Len(probe.input.generated) = 0)
        => LET r == probe.input.result
               base == IF r.success /\ r.tests_passed = r.total_tests
                       THEN RewardAllPass ELSE -PenaltyFailing
               by_latency == base - LatencyPenalty(probe.input.response_time)
           IN  /\ probe.all_context = probe.simple
               /\ probe.simple = by_latency
               /\ probe.all_context = by_latency

(***************************************************************************)
(* PrincipleEvaluator._calculate_individual_reward on any reply of the     *)
(* model and any response time of the developer.                           *)
(***************************************************************************)
\* Response times of developer.query in tenths of a second, which nothing bounds:
\* none, 1.5 s, 1900 s, 1900.2 s and 2500 s.
Latencies == {0, 15, 19000, 19002, 25000}

\* Replies of the model to a reward prompt: none, and amounts inside and outside
\* the range the extraction clamps to.
StatedAmounts == {<<>>, <<250>>, <<-20000>>, <<20000>>}

\* A call of _calculate_individual_reward for the submission in hand.
CalculateIndividualReward ==
    /\ probe.op = "reward_request"
    /\ probe' = [op |-> "calculate_individual_reward", input |-> probe.input,
                 value |-> calculate_individual_reward(
                              probe.input.available, probe.input.generated,
                              probe.input.result, probe.input.response_time)]
    /\ UNCHANGED <<bank, constitution, result, engineVars, frameVars, sandbox>>
    /\ UNCHANGED other

InitIndividual ==
    /\ InitEngine(0, FALSE)
    /\ sandbox = NoSandbox
    /\ other = NoOther
    /\ \E r \in SubmissionResults, t \in Latencies, available \in BOOLEAN,
          g \in StatedAmounts :
          probe = [op |-> "reward_request",
                   input |-> [result |-> r, response_time |-> t,
                              available |-> available, generated |-> g]]

SpecIndividual == InitIndividual /\ [][CalculateIndividualReward]_vars

\* C36: every reward computed for a submission is an integer from -10000 to 10000,
\* whether the reply of the model or the rule-based fallback gives it, and whatever
\* the response time of the developer.
C36_RewardWithinCap ==
    probe.op = "calculate_individual_reward" =>
        probe.value \in (-RewardCap)..RewardCap

====
